---- MODULE Spec2Model ----
(***************************************************************************)
(* A model of the SimpleDB database/sql driver (jjeffery/simpledb):        *)
(* the lexical scanner, the statement parser, the translator/executor      *)
(* that turns statements into SimpleDB requests, the type codec and the    *)
(* result cursors, together with a model of the SimpleDB store they call.  *)
(*                                                                         *)
(* Go strings are TLA+ strings; characters are strings of length one.      *)
(***************************************************************************)
EXTENDS Integers, Sequences, FiniteSets, TLC

VARIABLES
    domains,    \* the SimpleDB domains that exist
    items,      \* the attributes of the items: a set of <<domain, item, name, value>>
    conn,       \* the connection: [Schema, Synonyms]
    call,       \* the updateRow call in flight (its errgroup and its two branches)
    rows,       \* the open cursor (driver.Rows)
    last,       \* the outcome of the call that returned most recently
    hist        \* history of the open cursor: pages fetched, items delivered

vars == <<domains, items, conn, call, rows, last, hist>>

-----------------------------------------------------------------------------
(* Strings and characters *)

CharAt(s, i) == IF i >= 1 /\ i <= Len(s) THEN SubSeq(s, i, i) ELSE ""

UpperLetters == "ABCDEFGHIJKLMNOPQRSTUVWXYZ"
LowerLetters == "abcdefghijklmnopqrstuvwxyz"
DigitChars == "0123456789"

CharSet(s) == {SubSeq(s, i, i) : i \in 1..Len(s)}

\* 1-based index of character ch in s, 0 when absent (strings.IndexRune + 1)
IndexOf(s, ch) ==
    IF \E i \in 1..Len(s) : SubSeq(s, i, i) = ch
    THEN CHOOSE i \in 1..Len(s) :
            SubSeq(s, i, i) = ch /\ \A j \in 1..(i - 1) : SubSeq(s, j, j) # ch
    ELSE 0

LowerChar(ch) ==
    IF IndexOf(UpperLetters, ch) > 0
    THEN CharAt(LowerLetters, IndexOf(UpperLetters, ch))
    ELSE ch

RECURSIVE ToLower(_)
ToLower(s) == IF s = "" THEN "" ELSE LowerChar(Head(s)) \o ToLower(Tail(s))

EqualFold(a, b) == ToLower(a) = ToLower(b)

HasPrefix(s, p) == Len(s) >= Len(p) /\ SubSeq(s, 1, Len(p)) = p

TrimPrefix(s, p) == IF HasPrefix(s, p) THEN SubSeq(s, Len(p) + 1, Len(s)) ELSE s

\* strings.Replace(s, old, new, -1) for a one-character old
RECURSIVE ReplaceAll(_, _, _)
ReplaceAll(s, old, new) ==
    IF s = "" THEN ""
    ELSE (IF Head(s) = old THEN new ELSE Head(s)) \o ReplaceAll(Tail(s), old, new)

-----------------------------------------------------------------------------
(* internal/lex: the scanner *)

TokenIllegal == "Illegal"
TokenEOF == "EOF"
TokenWhiteSpace == "WhiteSpace"
TokenComment == "Comment"
TokenIdent == "Ident"
TokenKeyword == "Keyword"
TokenLiteral == "Literal"
TokenOperator == "Operator"
TokenPlaceholder == "Placeholder"

\* The grave accent cannot be written inside a TLA+ string; every grave accent
\* of the program's text (the identifier delimiter) is written as a tilde.
BackQuote == "~"

operators == "%&()*+,-./:;<=>?^|{}"

keywords ==
    {"or", "and", "not", "from", "where", "select", "like", "null", "is",
     "order", "by", "asc", "desc", "in", "between", "intersection", "limit",
     "every", "update", "upsert", "insert", "delete", "create", "drop",
     "table", "values", "set"}

isKeyword(lit) == ToLower(lit) \in keywords

isWhitespace(ch) == ch \in {" ", "\t", "\n", "\r"}

isDigit(ch) == ch # "" /\ IndexOf(DigitChars, ch) > 0

isStartIdent(ch) ==
    ch # "" /\ (ch = "_" \/ IndexOf(UpperLetters, ch) > 0 \/ IndexOf(LowerLetters, ch) > 0)

isIdent(ch) == isStartIdent(ch) \/ isDigit(ch)

\* the result of one Scan: the token, its lexeme and the position of the next unread character
setToken(tok, text, pos) == [tok |-> tok, text |-> text, pos |-> pos]

\* the first position >= i of s that holds no white space
RECURSIVE SkipWhitespace(_, _)
SkipWhitespace(s, i) ==
    IF isWhitespace(CharAt(s, i)) THEN SkipWhitespace(s, i + 1) ELSE i

scanWhitespace(s, i) ==
    LET j == SkipWhitespace(s, i)
    IN setToken(TokenWhiteSpace, SubSeq(s, i, j - 1), j)

\* the position after the end of the comment starting at i: after the newline, or the end of input
RECURSIVE CommentEnd(_, _)
CommentEnd(s, i) ==
    IF i > Len(s) THEN i
    ELSE IF CharAt(s, i) = "\n" THEN i + 1
    ELSE CommentEnd(s, i + 1)

scanComment(s, i) ==
    LET j == CommentEnd(s, i + 2)
    IN setToken(TokenComment, SubSeq(s, i, j - 1), j)

\* the position after the closing delimiter of a delimited lexeme whose body
\* starts at i, or 0 when the input ends first; a doubled endCh is an escape
RECURSIVE DelimitedEnd(_, _, _)
DelimitedEnd(s, i, endCh) ==
    IF i > Len(s) THEN 0
    ELSE IF CharAt(s, i) = endCh
         THEN IF CharAt(s, i + 1) = endCh
              THEN DelimitedEnd(s, i + 2, endCh)
              ELSE i + 1
         ELSE DelimitedEnd(s, i + 1, endCh)

scanDelimitedIdentifier(s, i, endCh) ==
    LET j == DelimitedEnd(s, i + 1, endCh)
    IN IF j = 0
       THEN setToken(TokenIllegal, SubSeq(s, i, Len(s)), Len(s) + 1)
       ELSE setToken(TokenIdent, SubSeq(s, i, j - 1), j)

RECURSIVE IdentEnd(_, _)
IdentEnd(s, i) == IF isIdent(CharAt(s, i)) THEN IdentEnd(s, i + 1) ELSE i

scanIdentifier(s, i) ==
    LET j == IdentEnd(s, i + 1)
        lexeme == SubSeq(s, i, j - 1)
    IN IF isKeyword(lexeme)
       THEN setToken(TokenKeyword, ToLower(lexeme), j)
       ELSE setToken(TokenIdent, lexeme, j)

\* seenDot: the comparison function has changed to isDigit
RECURSIVE NumberEnd(_, _, _)
NumberEnd(s, i, seenDot) ==
    LET ch == CharAt(s, i)
    IN IF isDigit(ch) THEN NumberEnd(s, i + 1, seenDot)
       ELSE IF ch = "." /\ ~seenDot THEN NumberEnd(s, i + 1, TRUE)
       ELSE i

scanNumber(s, i) ==
    LET j == NumberEnd(s, i + 1, CharAt(s, i) = ".")
    IN setToken(TokenLiteral, SubSeq(s, i, j - 1), j)

\* i: position of the first start character; n: number of start characters (1, or 2 for N' and X')
scanQuote(s, i, n) ==
    LET j == DelimitedEnd(s, i + n, "'")
    IN IF j = 0
       THEN setToken(TokenIllegal, SubSeq(s, i, Len(s)), Len(s) + 1)
       ELSE setToken(TokenLiteral, SubSeq(s, i, j - 1), j)

scanPlaceholder(s, i) == setToken(TokenPlaceholder, CharAt(s, i), i + 1)

\* Scanner.Scan with the reader at position pos
Scan(s, pos, IgnoreWhiteSpace) ==
    LET i == IF IgnoreWhiteSpace THEN SkipWhitespace(s, pos) ELSE pos
        ch == CharAt(s, i)
        ch2 == CharAt(s, i + 1)
    IN IF ch = "" THEN setToken(TokenEOF, "", i)
       ELSE IF isWhitespace(ch) THEN scanWhitespace(s, i)
       ELSE IF ch = "-"
            THEN IF ch2 = "-" THEN scanComment(s, i)
                 ELSE setToken(TokenOperator, ch, i + 1)
       ELSE IF ch = "[" THEN scanDelimitedIdentifier(s, i, "]")
       ELSE IF ch = BackQuote THEN scanDelimitedIdentifier(s, i, BackQuote)
       ELSE IF ch = "\"" THEN scanDelimitedIdentifier(s, i, "\"")
       ELSE IF ch = "'" THEN scanQuote(s, i, 1)
       ELSE IF ch = "{" THEN scanDelimitedIdentifier(s, i, "}")
       ELSE IF ch \in {"N", "n", "X", "x"}
            THEN IF ch2 = "'" THEN scanQuote(s, i, 2)
                 ELSE scanIdentifier(s, i)
       ELSE IF isStartIdent(ch) THEN scanIdentifier(s, i)
       ELSE IF isDigit(ch) THEN scanNumber(s, i)
       ELSE IF ch = "."
            THEN IF isDigit(ch2) THEN scanNumber(s, i)
                 ELSE setToken(TokenOperator, ch, i + 1)
       ELSE IF ch = "<"
            THEN IF ch2 = ">" THEN setToken(TokenOperator, "<>", i + 2)
                 ELSE setToken(TokenOperator, ch, i + 1)
       ELSE IF ch = "?" THEN scanPlaceholder(s, i)
       ELSE IF IndexOf(operators, ch) > 0 THEN setToken(TokenOperator, ch, i + 1)
       ELSE setToken(TokenIllegal, ch, i + 1)

\* lex.Unquote: the text of a quoted literal or delimited identifier without
\* its delimiters and with doubled closing delimiters undone
RECURSIVE Undouble(_, _)
Undouble(s, endCh) ==
    IF s = "" THEN ""
    ELSE IF Head(s) = endCh /\ CharAt(s, 2) = endCh
         THEN endCh \o Undouble(SubSeq(s, 3, Len(s)), endCh)
         ELSE Head(s) \o Undouble(Tail(s), endCh)

Closer(ch) ==
    IF ch = "[" THEN "]" ELSE IF ch = "{" THEN "}" ELSE ch

Unquote(s) ==
    LET t == IF Len(s) >= 2 /\ CharAt(s, 1) \in {"N", "n", "X", "x"} /\ CharAt(s, 2) = "'"
             THEN Tail(s) ELSE s
        ch == CharAt(t, 1)
    IN IF Len(t) >= 2 /\ ch \in {"'", "\"", BackQuote, "[", "{"} /\ CharAt(t, Len(t)) = Closer(ch)
       THEN Undouble(SubSeq(t, 2, Len(t) - 1), Closer(ch))
       ELSE s

-----------------------------------------------------------------------------
(* internal/parse: the statement model *)

\* %q of fmt.Sprintf, for text without characters that need escaping
Quoted(text) == "\"" \o text \o "\""

\* a Column or a Key: a zero-based placeholder ordinal, or a literal when IsLit (Value # nil)
NewColumn(name) == [ColumnName |-> name, Ordinal |-> 0, IsLit |-> FALSE, Value |-> ""]
NewKey == [Ordinal |-> 0, IsLit |-> FALSE, Value |-> ""]

\* Query: NonNil holds the names of the statement pointers that are not nil;
\* the other fields are those of the statement structs.  HasKey is Select.Key # nil.
NewQuery ==
    [NonNil |-> {}, ConsistentRead |-> FALSE, ColumnNames |-> <<>>, TableName |-> "",
     WhereClause |-> <<>>, HasKey |-> FALSE, Key |-> NewKey, Columns |-> <<>>,
     Upsert |-> FALSE]

\* the tokens of src from position pos on, white space included, up to the EOF token
RECURSIVE ScanAll(_, _)
ScanAll(s, pos) ==
    LET t == Scan(s, pos, FALSE)
    IN IF t.tok = TokenEOF THEN <<t>> ELSE <<t>> \o ScanAll(s, t.pos)

\* the index of the token the next Scan returns after token i
RECURSIVE NextIndex(_, _, _)
NextIndex(tokens, i, IgnoreWhiteSpace) ==
    IF i >= Len(tokens) THEN Len(tokens)
    ELSE IF IgnoreWhiteSpace /\ tokens[i + 1].tok = TokenWhiteSpace
         THEN NextIndex(tokens, i + 1, IgnoreWhiteSpace)
    ELSE i + 1

\* parser: the scanner (the tokens of the source, the index of the token it
\* returned last, IgnoreWhiteSpace, and that token and its text), the query
\* under construction, the column under construction (col), and failed/err
\* once errorf has panicked.  A statement of a parse function is a step from
\* parser to parser that a failed parser passes through unchanged.
NewParser(query) ==
    [tok |-> TokenIllegal, text |-> "", IgnoreWhiteSpace |-> TRUE,
     tokens |-> ScanAll(query, 1), query |-> NewQuery,
     idx |-> 0, placeholderIndex |-> 0, lexemes |-> <<>>, col |-> NewColumn(""),
     failed |-> FALSE, err |-> ""]

errorf(p, msg) == IF p.failed THEN p ELSE [p EXCEPT !.failed = TRUE, !.err = msg]

\* p.lexer.Scan()
scanInto(p) ==
    [p EXCEPT !.idx = NextIndex(p.tokens, p.idx, p.IgnoreWhiteSpace),
              !.tok = p.tokens[NextIndex(p.tokens, p.idx, p.IgnoreWhiteSpace)].tok,
              !.text = p.tokens[NextIndex(p.tokens, p.idx, p.IgnoreWhiteSpace)].text]

\* the loop of parser.next: drop comments, reduce white space to one " " lexeme
RECURSIVE skipTrivia(_)
skipTrivia(p) ==
    IF p.tok = TokenComment THEN skipTrivia(scanInto(p))
    ELSE IF p.tok = TokenWhiteSpace
         THEN skipTrivia(scanInto(
                IF Len(p.lexemes) > 0 /\ p.lexemes[Len(p.lexemes)] # " "
                THEN [p EXCEPT !.lexemes = Append(@, " ")]
                ELSE p))
    ELSE p

\* a next for which a literal counts as a placeholder does
nextEvery(p) ==
    IF p.failed THEN p
    ELSE skipTrivia(scanInto(
            IF p.tok \in {TokenPlaceholder, TokenLiteral}
            THEN [p EXCEPT !.placeholderIndex = @ + 1]
            ELSE p))

next(p) ==
    IF p.failed THEN p
    ELSE skipTrivia(scanInto(
            IF p.tok = TokenPlaceholder
            THEN [p EXCEPT !.placeholderIndex = @ + 1]
            ELSE p))

copyText(p) == IF p.failed THEN p ELSE [p EXCEPT !.lexemes = Append(@, p.text)]

expect(p, toks) ==
    IF p.failed \/ p.tok \in toks THEN p ELSE errorf(p, "unexpected " \o Quoted(p.text))

expectText(p, text) ==
    IF p.failed \/ EqualFold(p.text, text) THEN p
    ELSE errorf(p, "expected " \o Quoted(text) \o ", found " \o Quoted(p.text))

expectEOF(p) ==
    IF p.failed \/ p.tok = TokenEOF THEN p
    ELSE errorf(p, "expected end of query, found " \o Quoted(p.text))

IsID(name) == EqualFold(Unquote(name), "id")

\* the value source at the current token: a placeholder's ordinal or a literal's text
valueSource(p, rec) ==
    IF p.tok = TokenPlaceholder
    THEN [rec EXCEPT !.Ordinal = p.placeholderIndex]
    ELSE [rec EXCEPT !.IsLit = TRUE, !.Value = Unquote(p.text)]

\* p.query.X = &XQuery{}
newStatement(p, name) == [p EXCEPT !.query.NonNil = @ \cup {name}]

\* p.query.X.TableName = lex.Unquote(p.text())
setTableName(p) ==
    IF p.failed THEN p ELSE [p EXCEPT !.query.TableName = Unquote(p.text)]

\* col := Column{ColumnName: lex.Unquote(p.text())}
newColumn(p) == IF p.failed THEN p ELSE [p EXCEPT !.col = NewColumn(Unquote(p.text))]

\* columns = append(columns, col)
appendColumn(p) == IF p.failed THEN p ELSE [p EXCEPT !.query.Columns = Append(@, p.col)]

\* the key of an update or a delete from the current token
setKey(p) == IF p.failed THEN p ELSE [p EXCEPT !.query.Key = valueSource(p, NewKey)]

(* select *)

appendColumnName(p) ==
    IF p.failed THEN p ELSE [p EXCEPT !.query.ColumnNames = Append(@, Unquote(p.text))]

selectIdent(p) == next(appendColumnName(expect(p, {TokenIdent})))

RECURSIVE selectMoreColumns(_)
selectMoreColumns(p) ==
    IF ~p.failed /\ p.text = "," THEN selectMoreColumns(selectIdent(next(p))) ELSE p

parseSelectColumnList(p) == selectMoreColumns(selectIdent(p))

parseSelectFromClause(p) ==
    next(setTableName(expect(next(expectText(p, "from")), {TokenIdent})))

RECURSIVE copyRemaining(_)
copyRemaining(p) ==
    IF p.failed THEN p
    ELSE IF p.tok # TokenEOF THEN copyRemaining(next(copyText(p)))
    ELSE [p EXCEPT !.query.WhereClause = p.lexemes, !.lexemes = <<>>]

\* a whereEnd that keeps the key when the statement goes on
whereEndBoth(p, key) ==
    IF p.failed THEN p
    ELSE [copyRemaining(p) EXCEPT !.query.HasKey = TRUE, !.query.Key = key]

\* parseSelectWhereClause after the key: a key only when the statement ends here
whereEnd(p, key) ==
    IF p.tok # TokenEOF THEN copyRemaining(p)
    ELSE [p EXCEPT !.query.HasKey = TRUE, !.query.Key = key]

\* ... after "=": a literal or a placeholder
whereValue(p) ==
    IF p.tok \notin {TokenLiteral, TokenPlaceholder} THEN copyRemaining(p)
    ELSE whereEnd(next(copyText(p)), valueSource(p, NewKey))

\* ... after id
whereEquals(p) ==
    IF p.text # "=" THEN copyRemaining(p) ELSE whereValue(next(copyText(p)))

\* ... after where
whereID(p) ==
    IF p.tok # TokenIdent \/ Unquote(p.text) # "id" THEN copyRemaining(p)
    ELSE whereEquals(next(copyText(p)))

whereKeyword(p) ==
    IF ToLower(p.text) # "where" THEN copyRemaining(p) ELSE whereID(next(copyText(p)))

parseSelectWhereClause(p) ==
    IF p.failed THEN p ELSE whereKeyword([p EXCEPT !.IgnoreWhiteSpace = FALSE])

\* the optional consistent prefix of parseSelect
consistentRead(p) ==
    IF p.text = "consistent"
    THEN expectText(next([p EXCEPT !.query.ConsistentRead = TRUE]), "select")
    ELSE p

parseSelect(p) ==
    parseSelectWhereClause(parseSelectFromClause(parseSelectColumnList(
        next(consistentRead(newStatement(p, "Select"))))))

(* update *)

\* the end of parseUpdateColumn: the value source of col, appended to the columns
setColumnValue(p) ==
    IF p.failed THEN p ELSE [p EXCEPT !.col = valueSource(p, p.col)]

parseUpdateColumn(p) ==
    next(appendColumn(setColumnValue(
        expect(next(expectText(next(newColumn(expect(p, {TokenIdent}))), "=")),
               {TokenPlaceholder, TokenLiteral}))))

RECURSIVE updateMoreColumns(_)
updateMoreColumns(p) ==
    IF ~p.failed /\ p.text = "," THEN updateMoreColumns(parseUpdateColumn(next(p))) ELSE p

parseUpdateColumns(p) == updateMoreColumns(parseUpdateColumn(p))

parseUpdateWhere(p) ==
    next(setKey(
        expect(next(expectText(next(expectText(next(expectText(p, "where")), "id")), "=")),
               {TokenPlaceholder, TokenLiteral})))

parseUpdate(p) ==
    expectEOF(parseUpdateWhere(parseUpdateColumns(
        next(expectText(next(setTableName(
            expect(next(newStatement(p, "Update")), {TokenIdent}))), "set")))))

(* insert *)

insertIdent(p) == next(appendColumn(newColumn(expect(p, {TokenIdent}))))

RECURSIVE insertMoreColumns(_)
insertMoreColumns(p) ==
    IF ~p.failed /\ p.text = "," THEN insertMoreColumns(insertIdent(next(p))) ELSE p

parseInsertColumnList(p) == insertMoreColumns(insertIdent(p))

\* col.Ordinal or col.Value of column i from the current token
setInsertValue(p, i) ==
    IF p.failed THEN p ELSE [p EXCEPT !.query.Columns[i] = valueSource(p, @)]

\* the first loop of parseInsertValueList, from column i on
RECURSIVE insertValues(_, _)
insertValues(p, i) ==
    IF p.failed \/ i > Len(p.query.Columns) THEN p
    ELSE insertValues(
            next(setInsertValue(
                expect(IF i > 1 THEN next(expectText(p, ",")) ELSE p,
                       {TokenPlaceholder, TokenLiteral}), i)),
            i + 1)

\* the second loop of parseInsertValueList over cols, the columns not yet seen:
\* the id column goes to Key, the others are kept
RECURSIVE stripKey(_, _, _)
stripKey(p, cols, haveKey) ==
    IF p.failed THEN p
    ELSE IF cols = <<>>
         THEN IF haveKey THEN p ELSE errorf(p, "missing id column in insert statement")
    ELSE IF ~IsID(Head(cols).ColumnName)
         THEN stripKey([p EXCEPT !.query.Columns = Append(@, Head(cols))], Tail(cols), haveKey)
    ELSE IF haveKey THEN errorf(p, "duplicate id column in insert statement")
    ELSE stripKey([p EXCEPT !.query.Key = [Ordinal |-> Head(cols).Ordinal,
                                           IsLit |-> Head(cols).IsLit,
                                           Value |-> Head(cols).Value]],
                  Tail(cols), TRUE)

\* a parseInsertValueList without its second loop
stripKeysNone(p) == p

stripKeys(p) ==
    IF p.failed THEN p
    ELSE stripKey([p EXCEPT !.query.Columns = <<>>], p.query.Columns, FALSE)

parseInsertValueList(p) == stripKeys(insertValues(p, 1))

\* the optional into of parseInsert
skipInto(p) == IF ~p.failed /\ EqualFold(p.text, "into") THEN next(p) ELSE p

insertColumns(p) ==
    parseInsertColumnList(next(expectText(next(setTableName(
        expect(skipInto(next(newStatement(p, "Insert"))), {TokenIdent}))), "(")))

insertValueList(p) ==
    parseInsertValueList(
        next(expectText(next(expectText(next(expectText(p, ")")), "values")), "(")))

parseInsert(p) == expectEOF(next(expectText(insertValueList(insertColumns(p)), ")")))

(* delete, create table, drop table *)

parseDeleteWhere(p) ==
    next(setKey(
        expect(next(expectText(next(expectText(next(expectText(p, "where")), "id")), "=")),
               {TokenPlaceholder, TokenLiteral})))

\* the optional from of parseDelete
skipFrom(p) == IF ~p.failed /\ ToLower(p.text) = "from" THEN next(p) ELSE p

parseDelete(p) ==
    expectEOF(parseDeleteWhere(next(setTableName(
        expect(skipFrom(next(newStatement(p, "Delete"))), {TokenIdent})))))

parseCreateTable(p) ==
    expectEOF(next(setTableName(
        expect(next(expectText(next(newStatement(p, "CreateTable")), "table")),
               {TokenIdent}))))

parseDropTable(p) ==
    expectEOF(next(setTableName(
        expect(next(expectText(next(newStatement(p, "DropTable")), "table")),
               {TokenIdent}))))

\* the switch of parser.parse on the text of the first token
dispatch(p, text) ==
    IF text \in {"select", "consistent"} THEN parseSelect(p)
    ELSE IF text = "update" THEN parseUpdate(p)
    ELSE IF text = "insert" THEN parseInsert(p)
    ELSE IF text = "delete" THEN parseDelete(p)
    ELSE IF text = "create" THEN parseCreateTable(p)
    ELSE IF text = "drop" THEN parseDropTable(p)
    ELSE IF p.tok = TokenKeyword THEN errorf(p, "unexpected keyword " \o Quoted(p.text))
    ELSE errorf(p, "unrecognized query " \o Quoted(p.text))

firstText(p) == dispatch(p, ToLower(p.text))

\* parser.parse
parse(query) == firstText(next(NewParser(query)))

\* a return that hands out the Query under construction with the error
resultPartial(p) ==
    IF p.failed
    THEN [err |-> p.err, ok |-> FALSE, q |-> p.query]
    ELSE [err |-> "", ok |-> TRUE, q |-> p.query]

\* the return of parser.parse: (q, nil), or (nil, err) after a panic
result(p) ==
    IF p.failed
    THEN [err |-> p.err, ok |-> FALSE, q |-> NewQuery]
    ELSE [err |-> "", ok |-> TRUE, q |-> p.query]

\* Parse: (q, nil) or (nil, err); a nil Query is NewQuery with ok false
Parse(query) == result(parse(query))

-----------------------------------------------------------------------------
(* driver.Value, and the conversions of strconv, time and encoding/base64 *)

\* A driver.Value: t is its Go type and the other fields carry the value.
\*   "string"   s           "int64"    n
\*   "float64"  n halves (the model's float64 are the multiples of 0.5)
\*   "bool"     n (0 or 1)  "binary"   b, the bytes
\*   "time"     n seconds into 2099-12-31 (-1: the zero Time), ns nanoseconds,
\*              off the zone offset in minutes
\*   "nil"      the nil interface
\*   "named"    s, a value of a named string type (reflect.Kind String, not string)
\*   "int"      n, a Go int: a type the driver does not support
Val(t) == [s |-> "", b |-> <<>>, n |-> 0, t |-> t, ns |-> 0, off |-> 0]
StringV(s) == [Val("string") EXCEPT !.s = s]
Int64V(n) == [Val("int64") EXCEPT !.n = n]
Float64V(h) == [Val("float64") EXCEPT !.n = h]
BoolV(b) == [Val("bool") EXCEPT !.n = IF b THEN 1 ELSE 0]
TimeV(n, ns, off) == [Val("time") EXCEPT !.n = n, !.ns = ns, !.off = off]
BinaryV(b) == [Val("binary") EXCEPT !.b = b]
NilV == Val("nil")
NamedV(s) == [Val("named") EXCEPT !.s = s]
IntV(n) == [Val("int") EXCEPT !.n = n]
ZeroTime == TimeV(-1, 0, 0)

Digit(d) == CharAt(DigitChars, d + 1)

RECURSIVE FormatUint(_)
FormatUint(n) == IF n < 10 THEN Digit(n) ELSE FormatUint(n \div 10) \o Digit(n % 10)

\* strconv.FormatInt(n, 10)
FormatInt(n) == IF n < 0 THEN "-" \o FormatUint(-n) ELSE FormatUint(n)

AllDigits(s) == s # "" /\ \A i \in 1..Len(s) : isDigit(CharAt(s, i))

RECURSIVE DigitsValue(_)
DigitsValue(s) ==
    IF s = "" THEN 0
    ELSE 10 * DigitsValue(SubSeq(s, 1, Len(s) - 1)) + (IndexOf(DigitChars, CharAt(s, Len(s))) - 1)

\* strconv.ParseInt(s, 10, 64), for values in range: (n, nil), or (0, err) on a syntax error
ParseInt(s) ==
    LET neg == CharAt(s, 1) = "-"
        body == IF CharAt(s, 1) \in {"-", "+"} THEN Tail(s) ELSE s
    IN IF AllDigits(body)
       THEN [n |-> IF neg THEN -DigitsValue(body) ELSE DigitsValue(body), ok |-> TRUE]
       ELSE [n |-> 0, ok |-> FALSE]

\* strconv.FormatFloat(v, 'g', -1, 64) of h halves: the shortest decimal that reads back as v
FormatFloat(h) ==
    LET a == IF h < 0 THEN -h ELSE h
    IN (IF h < 0 THEN "-" ELSE "") \o FormatUint(a \div 2) \o (IF a % 2 = 1 THEN ".5" ELSE "")

\* the fraction digits f denote 0 or 0.5
FracHalves(f) ==
    IF \A i \in 1..Len(f) : CharAt(f, i) = "0" THEN 0
    ELSE IF CharAt(f, 1) = "5" /\ \A i \in 2..Len(f) : CharAt(f, i) = "0" THEN 1
    ELSE -1

\* strconv.ParseFloat(s, 64) of a decimal without exponent: halves, or (0, err)
ParseFloat(s) ==
    LET neg == CharAt(s, 1) = "-"
        body == IF CharAt(s, 1) \in {"-", "+"} THEN Tail(s) ELSE s
        dot == IndexOf(body, ".")
        ip == IF dot = 0 THEN body ELSE SubSeq(body, 1, dot - 1)
        fp == IF dot = 0 THEN "" ELSE SubSeq(body, dot + 1, Len(body))
        wellFormed == /\ (ip # "" \/ fp # "")
                      /\ \A i \in 1..Len(ip) : isDigit(CharAt(ip, i))
                      /\ \A i \in 1..Len(fp) : isDigit(CharAt(fp, i))
                      /\ FracHalves(fp) >= 0
        h == 2 * DigitsValue(ip) + FracHalves(fp)
    IN IF wellFormed THEN [n |-> IF neg THEN -h ELSE h, ok |-> TRUE]
       ELSE [n |-> 0, ok |-> FALSE]

\* strconv.FormatBool and strconv.ParseBool
FormatBool(n) == IF n = 1 THEN "true" ELSE "false"

ParseBool(s) ==
    IF s \in {"1", "t", "T", "TRUE", "true", "True"} THEN [n |-> 1, ok |-> TRUE]
    ELSE IF s \in {"0", "f", "F", "FALSE", "false", "False"} THEN [n |-> 0, ok |-> TRUE]
    ELSE [n |-> 0, ok |-> FALSE]

TwoDigits(n) == Digit(n \div 10) \o Digit(n % 10)

DatePrefix == "2099-12-31T"

\* Time.Format(time.RFC3339): seconds precision, Z for UTC, else the numeric offset
FormatTime(v) ==
    LET a == IF v.off < 0 THEN -v.off ELSE v.off
    IN DatePrefix \o TwoDigits(v.n \div 3600) \o ":" \o TwoDigits((v.n \div 60) % 60)
          \o ":" \o TwoDigits(v.n % 60)
          \o (IF v.off = 0 THEN "Z"
              ELSE (IF v.off < 0 THEN "-" ELSE "+") \o TwoDigits(a \div 60)
                      \o ":" \o TwoDigits(a % 60))

\* time.Parse(time.RFC3339, s) for a time of 2099-12-31: the Time, or the zero Time on error
ParseTime(s) ==
    LET hh == SubSeq(s, 12, 13)
        mm == SubSeq(s, 15, 16)
        ss == SubSeq(s, 18, 19)
        zone == SubSeq(s, 20, Len(s))
        zoneOk == \/ zone = "Z"
                  \/ /\ Len(zone) = 6
                     /\ CharAt(zone, 1) \in {"+", "-"}
                     /\ AllDigits(SubSeq(zone, 2, 3))
                     /\ CharAt(zone, 4) = ":"
                     /\ AllDigits(SubSeq(zone, 5, 6))
        off == IF zone = "Z" THEN 0
               ELSE (IF CharAt(zone, 1) = "-" THEN -1 ELSE 1)
                    * (60 * DigitsValue(SubSeq(zone, 2, 3)) + DigitsValue(SubSeq(zone, 5, 6)))
        ok == /\ Len(s) >= 20
              /\ HasPrefix(s, DatePrefix)
              /\ AllDigits(hh) /\ AllDigits(mm) /\ AllDigits(ss)
              /\ CharAt(s, 14) = ":" /\ CharAt(s, 17) = ":"
              /\ zoneOk
              /\ DigitsValue(hh) < 24 /\ DigitsValue(mm) < 60 /\ DigitsValue(ss) < 60
    IN IF ok
       THEN TimeV(3600 * DigitsValue(hh) + 60 * DigitsValue(mm) + DigitsValue(ss), 0, off)
       ELSE ZeroTime

\* Time.Equal: the same instant
InstantNs(v) == [ns |-> v.ns, sec |-> v.n - 60 * v.off]

Base64Alphabet == "ABCDEFGHIJKLMNOPQRSTUVWXYZabcdefghijklmnopqrstuvwxyz0123456789+/"

B64(n) == CharAt(Base64Alphabet, n + 1)

\* base64.StdEncoding.EncodeToString
RECURSIVE EncodeToString(_)
EncodeToString(b) ==
    IF Len(b) = 0 THEN ""
    ELSE IF Len(b) = 1
         THEN B64(b[1] \div 4) \o B64((b[1] % 4) * 16) \o "=="
    ELSE IF Len(b) = 2
         THEN B64(b[1] \div 4) \o B64((b[1] % 4) * 16 + b[2] \div 16)
                \o B64((b[2] % 16) * 4) \o "="
    ELSE B64(b[1] \div 4) \o B64((b[1] % 4) * 16 + b[2] \div 16)
            \o B64((b[2] % 16) * 4 + b[3] \div 64) \o B64(b[3] % 64)
            \o EncodeToString(SubSeq(b, 4, Len(b)))

B64Value(ch) == IndexOf(Base64Alphabet, ch) - 1

\* base64.StdEncoding.DecodeString with the error dropped: the bytes decoded
\* before the first malformed quantum
RECURSIVE DecodeString(_)
DecodeString(s) ==
    IF Len(s) < 4 THEN <<>>
    ELSE LET c1 == B64Value(CharAt(s, 1))
             c2 == B64Value(CharAt(s, 2))
             c3 == B64Value(CharAt(s, 3))
             c4 == B64Value(CharAt(s, 4))
             byte1 == c1 * 4 + c2 \div 16
             byte2 == (c2 % 16) * 16 + c3 \div 4
             byte3 == (c3 % 4) * 64 + c4
         IN IF c1 < 0 \/ c2 < 0 THEN <<>>
            ELSE IF SubSeq(s, 3, 4) = "=="
                 THEN IF Len(s) = 4 /\ c2 % 16 = 0 THEN <<byte1>> ELSE <<>>
            ELSE IF c3 < 0 THEN <<>>
            ELSE IF CharAt(s, 4) = "="
                 THEN IF Len(s) = 4 /\ c3 % 4 = 0 THEN <<byte1, byte2>> ELSE <<>>
            ELSE IF c4 < 0 THEN <<>>
            ELSE <<byte1, byte2, byte3>> \o DecodeString(SubSeq(s, 5, Len(s)))

-----------------------------------------------------------------------------
(* The SimpleDB service, as far as the driver calls it.  The store holds the  *)
(* set of existing domains and the attributes of their items: its is a set of *)
(* <<domain, item, name, value>>.  Every request takes fault, the error code  *)
(* of a failure of the service or transport ("" when the request is served).  *)

conditionalCheckFailed == "ConditionalCheckFailed"
attributeDoesNotExist == "AttributeDoesNotExist"
NoSuchDomain == "NoSuchDomain"
InvalidParameterValue == "InvalidParameterValue"
ServiceUnavailable == "ServiceUnavailable"
RequestCanceled == "RequestCanceled"

\* the attributes of item i of domain d: a set of <<name, value>>
AttributesOf(its, d, i) == {<<x[3], x[4]>> : x \in {y \in its : y[1] = d /\ y[2] = i}}

HasAttribute(its, d, i, name) == \E x \in its : x[1] = d /\ x[2] = i /\ x[3] = name

\* simpledb.UpdateCondition; has is FALSE for a nil Expected
NoExpected == [Value |-> "", has |-> FALSE, Name |-> "", Exists |-> FALSE]

\* the error code of a failed precondition, "" when it holds
CheckExpected(its, d, i, exp) ==
    IF ~exp.has THEN ""
    ELSE IF ~exp.Exists
         THEN IF HasAttribute(its, d, i, exp.Name) THEN conditionalCheckFailed ELSE ""
    ELSE IF ~HasAttribute(its, d, i, exp.Name) THEN attributeDoesNotExist
    ELSE IF <<d, i, exp.Name, exp.Value>> \notin its THEN conditionalCheckFailed
    ELSE ""

\* PutAttributes: every attribute of the request replaces the values of its name
PutAttributes(doms, its, input, fault) ==
    LET d == input.DomainName
        i == input.ItemName
        names == {input.Attributes[k].Name : k \in 1..Len(input.Attributes)}
        code == IF fault # "" THEN fault
                ELSE IF d \notin doms THEN NoSuchDomain
                ELSE IF \E k \in 1..Len(input.Attributes) : input.Attributes[k].Value = ""
                     THEN InvalidParameterValue
                ELSE CheckExpected(its, d, i, input.Expected)
    IN [items |-> IF code # "" THEN its
                  ELSE {x \in its : ~(x[1] = d /\ x[2] = i /\ x[3] \in names)}
                       \cup {<<d, i, input.Attributes[k].Name, input.Attributes[k].Value>> :
                                k \in 1..Len(input.Attributes)},
        err |-> code]

\* DeleteAttributes: the named attributes, or the whole item when none is named
DeleteAttributes(doms, its, input, fault) ==
    LET d == input.DomainName
        i == input.ItemName
        names == {input.Attributes[k] : k \in 1..Len(input.Attributes)}
        code == IF fault # "" THEN fault
                ELSE IF d \notin doms THEN NoSuchDomain
                ELSE CheckExpected(its, d, i, input.Expected)
    IN [items |-> IF code # "" THEN its
                  ELSE {x \in its : ~(x[1] = d /\ x[2] = i
                                        /\ (names = {} \/ x[3] \in names))},
        err |-> code]

\* GetAttributes: the attributes of the item among the requested names
GetAttributes(doms, its, input, fault) ==
    LET code == IF fault # "" THEN fault
                ELSE IF input.DomainName \notin doms THEN NoSuchDomain
                ELSE ""
    IN [err |-> code,
        Attributes |-> IF code # "" THEN {}
                       ELSE {a \in AttributesOf(its, input.DomainName, input.ItemName) :
                                \E k \in 1..Len(input.AttributeNames) :
                                    input.AttributeNames[k] = a[1]}]

\* CreateDomain and DeleteDomain are idempotent; DeleteDomain deletes the items
CreateDomain(doms, its, d, fault) ==
    [domains |-> IF fault # "" THEN doms ELSE doms \cup {d}, items |-> its, err |-> fault]

DeleteDomain(doms, its, d, fault) ==
    [domains |-> IF fault # "" THEN doms ELSE doms \ {d},
     items |-> IF fault # "" THEN its ELSE {x \in its : x[1] # d},
     err |-> fault]

\* the continuation token of Select is opaque to the driver: it stands for the
\* items that the pages before it returned
NoToken == [has |-> FALSE, seen |-> {}]

-----------------------------------------------------------------------------
(* conn.go: binding and the requests of insert, update and delete *)

\* A Go error: msg "" is nil; cause is the code of the store error it wraps;
\* dup is true of a duplicateKeyError (the only error with DuplicateKey())
NoError == [msg |-> "", cause |-> "", dup |-> FALSE]
NewError(msg) == [msg |-> msg, cause |-> "", dup |-> FALSE]
Wrap(code, msg) == [msg |-> msg, cause |-> code, dup |-> FALSE]
duplicateKeyError(msg) == [msg |-> msg, cause |-> "", dup |-> TRUE]

\* hasCode: store errors carry their code
hasCode(err, code) == err = code

\* the name of the Go type of a value, as reflect prints it
TypeName(v) ==
    IF v.t = "binary" THEN "[]uint8"
    ELSE IF v.t = "time" THEN "time.Time"
    ELSE IF v.t = "named" THEN "parse.aStringType"
    ELSE v.t

\* Key.String: (s, err), or a panic: reflect.Value.Type of the zero Value of a nil argument
KeyString(key, values) ==
    IF key.IsLit
    THEN [s |-> key.Value, err |-> NoError, panic |-> FALSE]
    ELSE IF key.Ordinal < 0 \/ key.Ordinal >= Len(values)
         THEN [s |-> "", err |-> NewError("not enough args supplied"), panic |-> FALSE]
    ELSE LET v == values[key.Ordinal + 1]
         IN IF v.t = "string" THEN [s |-> v.s, err |-> NoError, panic |-> FALSE]
            ELSE IF v.t = "named" THEN [s |-> v.s, err |-> NoError, panic |-> FALSE]
            ELSE IF v.t = "nil" THEN [s |-> "", err |-> NoError, panic |-> TRUE]
            ELSE [s |-> "",
                  err |-> NewError("invalid type for item name: " \o Quoted(TypeName(v))),
                  panic |-> FALSE]

\* Column.GetValue
GetValue(col, values) ==
    IF col.IsLit THEN [err |-> NoError, v |-> StringV(col.Value)]
    ELSE IF col.Ordinal < 0 \/ col.Ordinal >= Len(values)
         THEN [err |-> NewError("internal error: ordinal=" \o FormatInt(col.Ordinal)
                                  \o ", value len=" \o FormatInt(Len(values))),
               v |-> NilV]
    ELSE [err |-> NoError, v |-> values[col.Ordinal + 1]]

\* a getDomainName that puts the schema before the synonym too
getDomainNameSchema(c, tableName) ==
    IF c.Schema # ""
    THEN c.Schema \o "." \o (IF \E sy \in c.Synonyms : sy[1] = tableName
                              THEN (CHOOSE sy \in c.Synonyms : sy[1] = tableName)[2]
                              ELSE tableName)
    ELSE IF \E sy \in c.Synonyms : sy[1] = tableName
         THEN (CHOOSE sy \in c.Synonyms : sy[1] = tableName)[2]
    ELSE tableName

\* c.Synonyms is a map: a set of pairs <<table name, domain name>>, one a table
getDomainName(c, tableName) ==
    IF \E sy \in c.Synonyms : sy[1] = tableName
    THEN (CHOOSE sy \in c.Synonyms : sy[1] = tableName)[2]
    ELSE IF c.Schema # "" THEN c.Schema \o "." \o tableName
    ELSE tableName

typeColumnName(columnName) == "sql:" \o columnName

Attribute(name, value) == [Value |-> value, Name |-> name]

\* the body of the column loop of newPutDeleteInputs for a value v of column name:
\* what it appends to the put attributes and to the delete attributes
ColumnAttributes(name, v) ==
    LET addType(value) == <<Attribute(typeColumnName(name), value)>>
        addPut(value) == <<Attribute(name, value)>>
    IN IF v.t = "nil"
       THEN [err |-> NoError, put |-> addType("null"), del |-> <<name>>]
       ELSE IF v.t = "string"
            THEN IF v.s = ""
                 THEN [err |-> NoError, put |-> addType("string"), del |-> <<name>>]
                 ELSE [err |-> NoError, put |-> addType("string") \o addPut(v.s), del |-> <<>>]
       ELSE IF v.t = "int64"
            THEN [err |-> NoError, put |-> addType("int64") \o addPut(FormatInt(v.n)),
                  del |-> <<>>]
       ELSE IF v.t = "float64"
            THEN [err |-> NoError, put |-> addType("float64") \o addPut(FormatFloat(v.n)),
                  del |-> <<>>]
       ELSE IF v.t = "time"
            THEN [err |-> NoError, put |-> addType("time") \o addPut(FormatTime(v)),
                  del |-> <<>>]
       ELSE IF v.t = "bool"
            THEN [err |-> NoError, put |-> addType("bool") \o addPut(FormatBool(v.n)),
                  del |-> <<>>]
       ELSE IF v.t = "binary"
            THEN [err |-> NoError, put |-> addType("binary") \o addPut(EncodeToString(v.b)),
                  del |-> <<>>]
       ELSE [err |-> NewError("unexpected arg type: " \o TypeName(v)), put |-> <<>>,
             del |-> <<>>]

\* the inputs acc after the loop body has produced ca for a column
addAttributes(acc, ca) ==
    IF ca.err # NoError THEN [acc EXCEPT !.err = ca.err]
    ELSE [acc EXCEPT !.put.Attributes = @ \o ca.put, !.del.Attributes = @ \o ca.del]

\* the loop body for column col: col.GetValue and the switch on the value
columnValue(col, got) ==
    IF got.err # NoError THEN [err |-> got.err, put |-> <<>>, del |-> <<>>]
    ELSE ColumnAttributes(col.ColumnName, got.v)

\* the column loop of newPutDeleteInputs from column k on, with the inputs built so far
RECURSIVE ColumnLoop(_, _, _, _)
ColumnLoop(columns, args, k, acc) ==
    IF k > Len(columns) \/ acc.err # NoError THEN acc
    ELSE ColumnLoop(columns, args, k + 1,
            addAttributes(acc, columnValue(columns[k], GetValue(columns[k], args))))

\* newPutDeleteInputs: (putInput, deleteInput, nil), or (nil, nil, err), or a panic
newPutDeleteInputs(c, tableName, columns, key, args) ==
    LET k == KeyString(key, args)
        input == [DomainName |-> getDomainName(c, tableName), ItemName |-> k.s,
                  Attributes |-> <<>>, Expected |-> NoExpected]
        start == [err |-> NoError, panic |-> FALSE,
                  put |-> [input EXCEPT !.Attributes = <<Attribute("sql:id", "string")>>],
                  del |-> input]
    IN IF k.panic THEN [start EXCEPT !.panic = TRUE]
       ELSE IF k.err # NoError THEN [start EXCEPT !.err = k.err]
       ELSE ColumnLoop(columns, args, 1, start)

\* The outcome of a call on the connection: the error (or the panic), the
\* driver.Result (hasResult, rowsAffected), the store after it, and the number
\* of requests it sent to the store.
Outcome(err, doms, its, requests) ==
    [domains |-> doms, items |-> its, err |-> err, panic |-> FALSE,
     requests |-> requests, hasResult |-> FALSE, rowsAffected |-> 0]
Panicked(doms, its) == [Outcome(NoError, doms, its, 0) EXCEPT !.panic = TRUE]
newResult(rowCount, doms, its, requests) ==
    [Outcome(NoError, doms, its, requests) EXCEPT !.hasResult = TRUE,
                                                  !.rowsAffected = rowCount]

\* a createTable that refuses a table that exists
createTableNew(c, q, doms, its, fault) ==
    LET r == CreateDomain(doms, its, getDomainName(c, q.TableName), fault)
    IN IF r.err # "" \/ getDomainName(c, q.TableName) \in doms
       THEN Outcome(Wrap(r.err, "cannot create simpledb domain"), doms, its, 1)
       ELSE newResult(1, r.domains, r.items, 1)

createTable(c, q, doms, its, fault) ==
    LET r == CreateDomain(doms, its, getDomainName(c, q.TableName), fault)
    IN IF r.err # ""
       THEN Outcome(Wrap(r.err, "cannot create simpledb domain"), doms, its, 1)
       ELSE newResult(1, r.domains, r.items, 1)

dropTable(c, q, doms, its, fault) ==
    LET domainName == getDomainName(c, q.TableName)
        r == DeleteDomain(doms, its, getDomainName(c, domainName), fault)
    IN IF r.err # ""
       THEN Outcome(Wrap(r.err, "cannot delete simpledb domain"), doms, its, 1)
       ELSE newResult(1, r.domains, r.items, 1)

\* a deleteRow that deletes only an item that exists
deleteRowExisting(c, q, args, doms, its, fault) ==
    LET k == KeyString(q.Key, args)
        deleteInput == [DomainName |-> getDomainName(c, q.TableName), ItemName |-> k.s,
                        Attributes |-> <<>>,
                        Expected |-> [Value |-> "string", has |-> TRUE, Name |-> "sql:id",
                                      Exists |-> TRUE]]
        r == DeleteAttributes(doms, its, deleteInput, fault)
    IN IF k.panic THEN Panicked(doms, its)
       ELSE IF k.err # NoError THEN Outcome(k.err, doms, its, 0)
       ELSE IF r.err # "" THEN Outcome(Wrap(r.err, "cannot delete attributes"), doms, its, 1)
       ELSE newResult(0, doms, r.items, 1)

deleteRow(c, q, args, doms, its, fault) ==
    LET k == KeyString(q.Key, args)
        deleteInput == [DomainName |-> getDomainName(c, q.TableName), ItemName |-> k.s,
                        Attributes |-> <<>>, Expected |-> NoExpected]
        r == DeleteAttributes(doms, its, deleteInput, fault)
    IN IF k.panic THEN Panicked(doms, its)
       ELSE IF k.err # NoError THEN Outcome(k.err, doms, its, 0)
       ELSE IF r.err # "" THEN Outcome(Wrap(r.err, "cannot delete attributes"), doms, its, 1)
       ELSE newResult(0, doms, r.items, 1)

\* insertRow after its request: r is the answer of the store to putInput
insertResult(putInput, r, doms, its) ==
    IF r.err = "" THEN newResult(1, doms, r.items, 1)
    ELSE IF hasCode(r.err, conditionalCheckFailed)
         THEN Outcome(duplicateKeyError("cannot insert duplicate key table="
                        \o Quoted(putInput.DomainName) \o " itemName="
                        \o Quoted(putInput.ItemName)), doms, its, 1)
    ELSE Outcome(Wrap(r.err, "cannot put attributes"), doms, its, 1)

\* the request of insertRow: the put under the condition that sql:id does not exist
insertPut(putInput, doms, its, fault) ==
    insertResult(putInput, PutAttributes(doms, its, putInput, fault), doms, its)

\* insertRow without the condition on sql:id
insertInputsUnconditional(in, doms, its, fault) ==
    IF in.panic THEN Panicked(doms, its)
    ELSE IF in.err # NoError THEN Outcome(in.err, doms, its, 0)
    ELSE insertPut(in.put, doms, its, fault)

\* insertRow after newPutDeleteInputs
insertInputs(in, doms, its, fault) ==
    IF in.panic THEN Panicked(doms, its)
    ELSE IF in.err # NoError THEN Outcome(in.err, doms, its, 0)
    ELSE insertPut([in.put EXCEPT !.Expected =
                        [Value |-> "", has |-> TRUE, Name |-> "sql:id", Exists |-> FALSE]],
                   doms, its, fault)

insertRow(c, q, args, doms, its, fault) ==
    insertInputs(newPutDeleteInputs(c, q.TableName, q.Columns, q.Key, args), doms, its, fault)

\* updateRow up to group.Go: the two inputs with their precondition, and the
\* branches that are dispatched
updateInputs(c, q, args) ==
    LET in == newPutDeleteInputs(c, q.TableName, q.Columns, q.Key, args)
        expected == [Value |-> "string", has |-> TRUE, Name |-> "sql:id", Exists |-> TRUE]
    IN IF q.Upsert THEN in
       ELSE [in EXCEPT !.put.Expected = expected, !.del.Expected = expected]

\* a put goroutine to which a missing item is an error
putBranchErrorStrict(code) ==
    IF code = "" THEN NoError ELSE Wrap(code, "cannot put attributes")

\* the error a branch of updateRow returns to the group for the store's answer
putBranchError(code) ==
    IF code = "" THEN NoError
    ELSE IF hasCode(code, attributeDoesNotExist) THEN NoError
    ELSE Wrap(code, "cannot put attributes")

deleteBranchError(code) ==
    IF code = "" THEN NoError
    ELSE IF hasCode(code, attributeDoesNotExist) THEN NoError
    ELSE Wrap(code, "cannot delete attributes")

\* a group that keeps the error of the branch that failed last
groupDoneLast(g, err) ==
    IF err # NoError THEN [g EXCEPT !.err = err, !.cancelled = TRUE] ELSE g

\* errgroup.Group.Go: the first non-nil error is kept and cancels the context
groupDone(g, err) ==
    IF err # NoError /\ g.err = NoError
    THEN [g EXCEPT !.err = err, !.cancelled = TRUE]
    ELSE g

-----------------------------------------------------------------------------
(* conn.go: the requests of the two kinds of select *)

\* the AttributeNames of getAttributes: each column and its type column, then sql:id
RECURSIVE AttributeNames(_, _)
AttributeNames(columnNames, k) ==
    IF k > Len(columnNames) THEN <<"sql:id">>
    ELSE <<columnNames[k], "sql:" \o columnNames[k]>> \o AttributeNames(columnNames, k + 1)

getAttributesInput(c, q, itemName) ==
    [ConsistentRead |-> q.ConsistentRead,
     DomainName |-> getDomainName(c, q.TableName),
     ItemName |-> itemName,
     AttributeNames |-> AttributeNames(q.ColumnNames, 1)]

quoteIdentifier(columnName) ==
    BackQuote \o ReplaceAll(columnName, BackQuote, BackQuote \o BackQuote) \o BackQuote

\* a quoteString that leaves the quotes of s alone
quoteStringPlain(s) == "'" \o s \o "'"

quoteString(s) == "'" \o ReplaceAll(s, "'", "''") \o "'"

\* getArg of makeSelectExpression
getArg(args, index) ==
    IF index >= Len(args) THEN [s |-> "", err |-> NewError("not enough args for select query")]
    ELSE IF args[index + 1].t \in {"string", "named"}
         THEN [s |-> args[index + 1].s, err |-> NoError]
    ELSE [s |-> "", err |-> NewError("all args to a select query must be strings")]

\* the column names of the select expression: sql:id, then each column that is
\* not the id with its type column
RECURSIVE selectColumnNames(_, _)
selectColumnNames(columnNames, k) ==
    IF k > Len(columnNames) THEN <<>>
    ELSE (IF IsID(columnNames[k]) THEN <<>>
          ELSE <<quoteIdentifier(columnNames[k]), quoteIdentifier("sql:" \o columnNames[k])>>)
         \o selectColumnNames(columnNames, k + 1)

\* strings.Join
RECURSIVE Join(_, _)
Join(elems, sep) ==
    IF Len(elems) = 0 THEN ""
    ELSE IF Len(elems) = 1 THEN elems[1]
    ELSE elems[1] \o sep \o Join(Tail(elems), sep)

\* the loop of makeSelectExpression over the lexemes of the where clause
RECURSIVE whereLoop(_, _, _, _, _)
whereLoop(lexemes, args, k, argIndex, sb) ==
    IF k > Len(lexemes) THEN [s |-> sb, err |-> NoError]
    ELSE IF lexemes[k] \in {"id", BackQuote \o "id" \o BackQuote}
         THEN whereLoop(lexemes, args, k + 1, argIndex, sb \o "itemName()")
    ELSE IF lexemes[k] = "?"
         THEN IF getArg(args, argIndex).err # NoError
              THEN [s |-> "", err |-> getArg(args, argIndex).err]
              ELSE whereLoop(lexemes, args, k + 1, argIndex + 1,
                             sb \o quoteString(getArg(args, argIndex).s))
    ELSE whereLoop(lexemes, args, k + 1, argIndex, sb \o lexemes[k])

makeSelectExpression(c, q, args) ==
    whereLoop(q.WhereClause, args, 1, 0,
        "select "
            \o Join(<<quoteIdentifier("sql:id")>> \o selectColumnNames(q.ColumnNames, 1), ", ")
            \o " from " \o quoteIdentifier(getDomainName(c, q.TableName)) \o " ")

selectInput(q, selectExpression) ==
    [ConsistentRead |-> q.ConsistentRead, SelectExpression |-> selectExpression,
     NextToken |-> NoToken]

-----------------------------------------------------------------------------
(* rows.go: the column map and the two cursors *)

\* columnMap: colmap is a set of <<column, index>>, the indexes zero-based
NewColumnMap == [columns |-> <<>>, colmap |-> {}, itemNameIndex |-> 0]

\* the loop of setColumns from column i (one-based) on
RECURSIVE setColumnsLoop(_, _)
setColumnsLoop(cm, i) ==
    IF i > Len(cm.columns) THEN cm
    ELSE IF IsID(cm.columns[i])
         THEN setColumnsLoop([cm EXCEPT !.itemNameIndex = i - 1], i + 1)
    ELSE setColumnsLoop(
            [cm EXCEPT !.colmap = {x \in @ : x[1] # cm.columns[i]}
                                    \cup {<<cm.columns[i], i - 1>>}],
            i + 1)

setColumns(columns) == setColumnsLoop([NewColumnMap EXCEPT !.columns = columns], 1)

\* a first pass that does not seed the slot of a string or a null column
zeroValueNumeric(value, old) ==
    IF value = "int64" THEN Int64V(0)
    ELSE IF value = "float64" THEN Float64V(0)
    ELSE IF value = "bool" THEN BoolV(FALSE)
    ELSE IF value = "binary" THEN NilV
    ELSE old

\* the first pass of setValues for a type attribute of a mapped column: the
\* zero value of the type, or the value the slot has (old)
zeroValue(value, old) ==
    IF value = "string" THEN StringV("")
    ELSE IF value = "int64" THEN Int64V(0)
    ELSE IF value = "float64" THEN Float64V(0)
    ELSE IF value = "bool" THEN BoolV(FALSE)
    ELSE IF value \in {"binary", "null"} THEN NilV
    ELSE old

\* a second pass that reads every value as a string
decodeValueString(colType, value, old) == StringV(value)

\* the second pass of setValues for a value attribute of a mapped column
decodeValue(colType, value, old) ==
    IF colType = "string" THEN StringV(value)
    ELSE IF colType = "int64" THEN Int64V(ParseInt(value).n)
    ELSE IF colType = "float64" THEN Float64V(ParseFloat(value).n)
    ELSE IF colType = "bool" THEN BoolV(ParseBool(value).n = 1)
    ELSE IF colType = "time" THEN ParseTime(value)
    ELSE IF colType = "binary" THEN BinaryV(DecodeString(value))
    ELSE old

\* colTypes[typeColumnName(name)], and "string" when there is none
colTypeOf(attributes, name) ==
    IF \E a \in attributes : a[1] = typeColumnName(name) /\ a[2] # ""
    THEN (CHOOSE a \in attributes : a[1] = typeColumnName(name) /\ a[2] # "")[2]
    ELSE "string"

\* the slot with the index after the first pass
firstPass(cm, item, index) ==
    IF \E a \in item.Attributes :
            HasPrefix(a[1], "sql:") /\ <<TrimPrefix(a[1], "sql:"), index>> \in cm.colmap
    THEN zeroValue((CHOOSE a \in item.Attributes :
                        /\ HasPrefix(a[1], "sql:")
                        /\ <<TrimPrefix(a[1], "sql:"), index>> \in cm.colmap)[2],
                   IF index = cm.itemNameIndex THEN StringV(item.Name) ELSE NilV)
    ELSE IF index = cm.itemNameIndex THEN StringV(item.Name) ELSE NilV

\* the slot with the index after the second pass
secondPass(cm, item, index) ==
    IF \E a \in item.Attributes : <<a[1], index>> \in cm.colmap
    THEN decodeValue(
            colTypeOf(item.Attributes,
                      (CHOOSE a \in item.Attributes : <<a[1], index>> \in cm.colmap)[1]),
            (CHOOSE a \in item.Attributes : <<a[1], index>> \in cm.colmap)[2],
            firstPass(cm, item, index))
    ELSE firstPass(cm, item, index)

\* setValues: the values of the destination row, one slot for each column
setValues(cm, item) ==
    [j \in 1..Len(cm.columns) |-> secondPass(cm, item, j - 1)]

-----------------------------------------------------------------------------
(* The calls on a connection *)

\* The statement in execution and the updateRow in flight.  put and del are the
\* positions of the two goroutines: "none" (not dispatched), "ready", "done".
\* order (the answers of the store in the order the branches returned) and
\* before (the store when the call began) are history.
NoInput == [DomainName |-> "", ItemName |-> "", Attributes |-> <<>>, Expected |-> NoExpected]
NoCall ==
    [query |-> "", err |-> NoError, put |-> "none",
     del |-> "none", args |-> <<>>, deleteInput |-> NoInput, putInput |-> NoInput,
     cancelled |-> FALSE, active |-> FALSE,
     putItemExists |-> FALSE, delItemExists |-> FALSE, order |-> <<>>, before |-> {}]

\* the outcome of the call that returned most recently; none while a call is in
\* execution.  ret is what a function of the packages returned when it is
\* called on its own, outside a statement.
NoLast ==
    [query |-> "", err |-> NoError, fault |-> "", values |-> <<>>,
     panic |-> FALSE, args |-> <<>>, requests |-> 0, hasResult |-> FALSE,
     rowsAffected |-> 0, item |-> "",
     op |-> "none", branches |-> <<>>, request |-> "", eof |-> FALSE, ret |-> <<>>]

\* The cursor.  state is "none" before the first query, then "open" or
\* "closed"; kind is "get" (getAttributesRows) or "select" (selectQueryRows);
\* item is <<>> for a nil item; sent counts the requests of the Next in execution.
NoSelectInput == [ConsistentRead |-> FALSE, SelectExpression |-> "", NextToken |-> NoToken]
NoRows ==
    [items |-> <<>>, input |-> NoSelectInput, cm |-> NewColumnMap, item |-> <<>>,
     state |-> "none", kind |-> "", sent |-> 0]

\* History.  written: <<domain, item, column, value, statement>> for the value
\* the column was last written with, as long as that write is the last one;
\* asOf: written when the store last answered the cursor; attributes: the
\* attributes GetAttributes returned to the cursor; fetched and delivered: the
\* items of the pages Select returned to it and the items Next delivered;
\* sizes: the sizes of these pages; token: the last page carried a token;
\* domain: the domain of the table of the cursor.
\* track: the history of the writes is kept (in the specifications of the reads).
\* others: the statements of other callers that the store applied while the
\* call on this connection was in execution.  callers: the callers that insert
\* at the same time, each on a connection of its own, or that call Open at the
\* same time.  driver: the Driver of the calls of Open.
NoHist ==
    [attributes |-> {}, track |-> FALSE, written |-> {}, asOf |-> {}, domain |-> "",
     fetched |-> <<>>, delivered |-> <<>>, sizes |-> <<>>, token |-> FALSE,
     others |-> <<>>, callers |-> <<>>, driver |-> <<>>]

\* the call op(query, args) returns out; branches are the answers of the store
\* to the goroutines of an update, in the order they returned
Return(op, query, args, fault, out, branches) ==
    /\ last' = [NoLast EXCEPT
                    !.op = op, !.query = query, !.args = args,
                    !.fault = IF out.requests > 0 THEN fault ELSE "",
                    !.err = out.err, !.panic = out.panic, !.hasResult = out.hasResult,
                    !.rowsAffected = out.rowsAffected, !.requests = out.requests,
                    !.branches = branches]
    /\ domains' = out.domains
    /\ items' = out.items

\* the codes with which the service or the transport can fail a request
Faults == {"", ServiceUnavailable}

\* The statements of the executions explored
qCreate == "create table t"
qDrop == "drop table t"
qInsert == "insert into t(id, a) values(?, ?)"
qUpdate == "update t set a = ? where id = ?"
qUpsert == "upsert t set a = ? where id = ?"
qDelete == "delete from t where id = ?"
qSelectKey == "select a from t where id = ?"
qUnknown == "truncate table t"
qSelectLiteral == "select a from t where id = 'ID1'"
qSelectAll == "select id, a from t"
qUpdateBoth == "update t set a = ?, b = ? where id = ?"
qUpsertBoth == "upsert t set a = ?, b = ? where id = ?"
qUpdateTwice == "update t set a = ?, a = ? where id = ?"
qUpdateMarker == "update t set [sql:id] = ? where id = ?"

ExecQueries ==
    {qCreate, qDrop, qInsert, qUpdate, qUpsert, qDelete, qSelectKey, qUnknown}

AllQueries ==
    ExecQueries \cup {qSelectLiteral, qSelectAll, qUpdateBoth, qUpsertBoth, qUpdateTwice,
                       qUpdateMarker}

\* parse.Parse of every statement
Parsed == [query \in AllQueries |-> Parse(query)]

\* the arguments: item names ID1..IDn and other key arguments; column values
NumItems == 2
ItemNames == {"ID" \o FormatInt(k) : k \in 1..NumItems}
KeyArgs == {StringV(name) : name \in ItemNames} \cup {NilV, Int64V(7)}
ColArgs == {StringV("aaa"), StringV(""), NilV, IntV(3)}

\* the argument lists tried with a statement: complete ones, and ones too short
ExecArgs(query) ==
    IF query = qInsert
    THEN {<<k, v>> : k \in KeyArgs, v \in ColArgs} \cup {<<>>, <<StringV("ID1")>>}
    ELSE IF query \in {qUpdate, qUpsert}
         THEN {<<v, k>> : v \in ColArgs, k \in KeyArgs} \cup {<<>>, <<StringV("aaa")>>}
    ELSE IF query \in {qDelete, qSelectKey}
         THEN {<<k>> : k \in KeyArgs} \cup {<<>>}
    ELSE {<<>>}

\* a call of ExecContext returns out
ExecReturn(query, args, fault, out) ==
    /\ Return("Exec", query, args, fault, out, <<>>)
    /\ call' = call

\* updateRow up to group.Wait: the branches are dispatched unless the binding failed
updateRow(query, args, in) ==
    IF in.panic THEN ExecReturn(query, args, "", Panicked(domains, items))
    ELSE IF in.err # NoError
         THEN ExecReturn(query, args, "", Outcome(in.err, domains, items, 0))
    ELSE /\ call' = [NoCall EXCEPT
                        !.active = TRUE, !.query = query, !.args = args,
                        !.putInput = in.put, !.deleteInput = in.del,
                        !.put = IF Len(in.put.Attributes) > 0 THEN "ready" ELSE "none",
                        !.del = IF Len(in.del.Attributes) > 0 THEN "ready" ELSE "none",
                        !.before = items]
         /\ last' = NoLast
         /\ UNCHANGED <<domains, items>>

\* the statement q of ExecContext
execQuery(query, q, args, fault) ==
    IF "Select" \in q.NonNil
    THEN ExecReturn(query, args, fault,
            Outcome(NewError("unexpected select query for ExecContext"), domains, items, 0))
    ELSE IF "CreateTable" \in q.NonNil
         THEN ExecReturn(query, args, fault, createTable(conn, q, domains, items, fault))
    ELSE IF "DropTable" \in q.NonNil
         THEN ExecReturn(query, args, fault, dropTable(conn, q, domains, items, fault))
    ELSE IF "Insert" \in q.NonNil
         THEN ExecReturn(query, args, fault, insertRow(conn, q, args, domains, items, fault))
    ELSE IF "Update" \in q.NonNil
         THEN updateRow(query, args, updateInputs(conn, q, args))
    ELSE IF "Delete" \in q.NonNil
         THEN ExecReturn(query, args, fault, deleteRow(conn, q, args, domains, items, fault))
    ELSE ExecReturn(query, args, fault,
            Outcome(NewError("unsupported query"), domains, items, 0))

\* History of the writes.  The values the statement of l writes to its columns
WritesOf(c, q, args, statement) ==
    {<<getDomainName(c, q.TableName), KeyString(q.Key, args).s,
       q.Columns[k].ColumnName, GetValue(q.Columns[k], args).v, statement>> :
        k \in 1..Len(q.Columns)}

\* w without the columns of the item that the statement names
Forget(w, c, q, args) ==
    {e \in w : ~(/\ e[1] = getDomainName(c, q.TableName)
                 /\ e[2] = KeyString(q.Key, args).s
                 /\ \E k \in 1..Len(q.Columns) : q.Columns[k].ColumnName = e[3])}

\* written after the call that l describes has returned and left the items its:
\* an insert or an update that the store applied writes its values, an update
\* of which the store applied one request of two leaves the column unknown,
\* and the items that are no more have no columns
TrackStatement(w, l, c, q, its) ==
    IF "Insert" \in q.NonNil /\ l.err = NoError /\ l.hasResult
    THEN Forget(w, c, q, l.args) \cup WritesOf(c, q, l.args, "insert")
    ELSE IF "Update" \in q.NonNil /\ \E k \in 1..Len(l.branches) : l.branches[k][2] = ""
         THEN Forget(w, c, q, l.args)
                \cup (IF \A k \in 1..Len(l.branches) : l.branches[k][2] = ""
                      THEN WritesOf(c, q, l.args, "update") ELSE {})
    ELSE {e \in w : \E x \in its : x[1] = e[1] /\ x[2] = e[2]}

Track(w, l, c, its) ==
    IF l.op # "Exec" \/ l.panic THEN w
    ELSE IF ~Parsed[l.query].ok THEN w
    ELSE TrackStatement(w, l, c, Parsed[l.query].q, its)

\* the history of a new cursor
newCursor(h) ==
    [h EXCEPT !.asOf = h.written, !.domain = "", !.attributes = {}, !.fetched = <<>>,
              !.delivered = <<>>, !.sizes = <<>>, !.token = FALSE, !.others = <<>>]

\* the history after the call that last' describes
Written(h) == [h EXCEPT !.written = IF h.track THEN Track(@, last', conn, items') ELSE @]

\* ExecContext, up to its return or, for an update, up to group.Wait.  The
\* connection serves one call at a time, and none while its cursor is open;
\* the caller has let go of a closed cursor when it executes a statement.
ExecContext(query, args, fault) ==
    /\ ~call.active
    /\ rows.state # "open" /\ rows.sent = 0
    /\ conn' = conn
    /\ rows' = NoRows
    /\ IF ~Parsed[query].ok
       THEN ExecReturn(query, args, fault,
                Outcome(NewError(Parsed[query].err), domains, items, 0))
       ELSE execQuery(query, Parsed[query].q, args, fault)
    /\ hist' = Written(newCursor(hist))

\* the put goroutine of updateRow: its request and its return to the group.
\* A request of a cancelled context may fail with RequestCanceled.
UpdatePut(fault) ==
    /\ call.active /\ call.put = "ready"
    /\ fault = RequestCanceled => call.cancelled
    /\ LET r == PutAttributes(domains, items, call.putInput, fault)
           g == groupDone(call, putBranchError(r.err))
       IN /\ items' = r.items
          /\ call' = [g EXCEPT !.put = "done",
                               !.putItemExists = (r.err = ""),
                               !.order = Append(@, <<"put", r.err>>)]
    /\ UNCHANGED <<domains, conn, rows, last, hist>>

\* the delete goroutine of updateRow
UpdateDelete(fault) ==
    /\ call.active /\ call.del = "ready"
    /\ fault = RequestCanceled => call.cancelled
    /\ LET r == DeleteAttributes(domains, items, call.deleteInput, fault)
           g == groupDone(call, deleteBranchError(r.err))
       IN /\ items' = r.items
          /\ call' = [g EXCEPT !.del = "done",
                               !.delItemExists = (r.err = ""),
                               !.order = Append(@, <<"delete", r.err>>)]
    /\ UNCHANGED <<domains, conn, rows, last, hist>>

\* a return of updateRow that counts the row when both goroutines found the item
UpdateWaitBoth ==
    /\ call.active /\ call.put # "ready" /\ call.del # "ready"
    /\ LET rowCount == IF call.putItemExists /\ call.delItemExists THEN 1 ELSE 0
           out == IF call.err # NoError
                  THEN Outcome(call.err, domains, items, Len(call.order))
                  ELSE newResult(rowCount, domains, items, Len(call.order))
       IN Return("Exec", call.query, call.args, "", out, call.order)
    /\ call' = NoCall
    /\ hist' = Written(hist)
    /\ UNCHANGED <<conn, rows>>

\* group.Wait and the return of updateRow
UpdateWait ==
    /\ call.active /\ call.put # "ready" /\ call.del # "ready"
    /\ LET rowCount == IF call.putItemExists \/ call.delItemExists THEN 1 ELSE 0
           out == IF call.err # NoError
                  THEN Outcome(call.err, domains, items, Len(call.order))
                  ELSE newResult(rowCount, domains, items, Len(call.order))
       IN Return("Exec", call.query, call.args, "", out, call.order)
    /\ call' = NoCall
    /\ hist' = Written(hist)
    /\ UNCHANGED <<conn, rows>>

Init ==
    /\ domains = {}
    /\ items = {}
    /\ conn = [Schema |-> "", Synonyms |-> {}]
    /\ call = NoCall
    /\ rows = NoRows
    /\ last = NoLast
    /\ hist = NoHist

Next ==
    \/ \E query \in ExecQueries : \E args \in ExecArgs(query) : \E fault \in Faults :
          ExecContext(query, args, fault)
    \/ \E fault \in Faults \cup {RequestCanceled} : UpdatePut(fault)
    \/ \E fault \in Faults \cup {RequestCanceled} : UpdateDelete(fault)
    \/ UpdateWait

Spec == Init /\ [][Next]_vars

-----------------------------------------------------------------------------
(* The SimpleDB service: Select *)

\* The service reads the output list and the domain from the text of the
\* select expression; expressions with a where clause are not evaluated here.
RECURSIVE FromIndex(_, _)
FromIndex(tokens, i) ==
    IF i > Len(tokens) THEN i
    ELSE IF ToLower(tokens[i].text) = "from" THEN i
    ELSE FromIndex(tokens, i + 1)

\* the attribute names of the output list
OutputNames(tokens) ==
    {Unquote(tokens[k].text) :
        k \in {j \in 1..(FromIndex(tokens, 1) - 1) : tokens[j].tok = TokenIdent}}

RECURSIVE FirstIdent(_, _)
FirstIdent(tokens, i) ==
    IF i > Len(tokens) THEN ""
    ELSE IF tokens[i].tok = TokenIdent THEN Unquote(tokens[i].text)
    ELSE FirstIdent(tokens, i + 1)

DomainOf(tokens) == FirstIdent(tokens, FromIndex(tokens, 1) + 1)

\* what the service reads from a select expression
ReadTokens(tokens) == [DomainName |-> DomainOf(tokens), names |-> OutputNames(tokens)]

ReadExpression(e) == ReadTokens(ScanAll(e, 1))

\* the select expressions of the statements explored, read once
SelectExpressions ==
    {makeSelectExpression([Schema |-> "", Synonyms |-> {}], Parsed[qSelectAll].q, <<>>).s}

Expressions == [e \in SelectExpressions |-> ReadExpression(e)]

Expression(e) == Expressions[e]

\* the items of the domain that have an attribute of the output list
Matching(its, d, names) == {x[2] : x \in {y \in its : y[1] = d /\ y[3] \in names}}

\* the items a request with the token has still to return
Remaining(its, e, token) == Matching(its, e.DomainName, e.names) \ token.seen

\* page is an answer the service can give: page.names are items it has still
\* to return, each once, and it sets no token only with the last of them
PageAmong(rest, page) ==
    /\ \A k \in 1..Len(page.names) : page.names[k] \in rest
    /\ \A j, k \in 1..Len(page.names) : page.names[j] = page.names[k] => j = k
    /\ ~page.more => Len(page.names) = Cardinality(rest)

PageOf(its, input, page) ==
    PageAmong(Remaining(its, Expression(input.SelectExpression), input.NextToken), page)

SelectItem(its, d, names, i) ==
    [Name |-> i, Attributes |-> {a \in AttributesOf(its, d, i) : a[1] \in names}]

SelectItems(its, e, page) ==
    [k \in 1..Len(page.names) |-> SelectItem(its, e.DomainName, e.names, page.names[k])]

\* the answer to a request that the service serves, or the error code
SelectOutput(its, input, page, e, code) ==
    [err |-> code,
     NextToken |-> IF code # "" \/ ~page.more THEN NoToken
                   ELSE [has |-> TRUE,
                         seen |-> input.NextToken.seen
                                    \cup {page.names[k] : k \in 1..Len(page.names)}],
     Items |-> IF code # "" THEN <<>> ELSE SelectItems(its, e, page)]

SelectExpression(doms, its, input, fault, page, e) ==
    SelectOutput(its, input, page, e,
        IF fault # "" THEN fault
        ELSE IF e.DomainName \notin doms THEN NoSuchDomain
        ELSE "")

Select(doms, its, input, fault, page) ==
    SelectExpression(doms, its, input, fault, page, Expression(input.SelectExpression))

-----------------------------------------------------------------------------
(* The calls of the reads: QueryContext and the two cursors *)

\* an answer of Select: the items of the page in their order, and whether it
\* carries a token
NoPage == [names |-> <<>>, more |-> FALSE]

\* an error of the store that the driver returns as it is
StoreError(code) == Wrap(code, code)

\* QueryContext returns (nil, err), or panics
queryFails(query, args, fault, err, panic, requests) ==
    /\ last' = [NoLast EXCEPT
                    !.op = "Query", !.query = query, !.args = args,
                    !.fault = IF requests > 0 THEN fault ELSE "",
                    !.err = err, !.panic = panic, !.requests = requests]
    /\ UNCHANGED <<rows, hist>>

\* QueryContext returns (nil, err) after the store has failed the request
requestFails(query, args, fault, err, request, item) ==
    /\ last' = [NoLast EXCEPT
                    !.op = "Query", !.query = query, !.args = args, !.fault = fault,
                    !.err = err, !.requests = 1, !.request = request, !.item = item]
    /\ UNCHANGED <<rows, hist>>

\* QueryContext returns the cursor r after the request; h is the history of r
queryReturns(query, args, fault, r, request, item, h) ==
    /\ rows' = [r EXCEPT !.state = "open"]
    /\ last' = [NoLast EXCEPT
                    !.op = "Query", !.query = query, !.args = args, !.fault = fault,
                    !.requests = 1, !.request = request, !.item = item]
    /\ hist' = [h EXCEPT !.domain = getDomainName(conn, Parsed[query].q.TableName)]

\* a cursor that has an item whatever the store returned
getAttributesItemAlways(itemName, attributes) ==
    <<[Name |-> itemName, Attributes |-> attributes]>>

\* rows.item of getAttributes: nil unless the store returned attributes
getAttributesItem(itemName, attributes) ==
    IF Cardinality(attributes) > 0
    THEN <<[Name |-> itemName, Attributes |-> attributes]>>
    ELSE <<>>

\* getAttributes from the answer out of the store on
getAttributesOutput(query, q, args, fault, itemName, out) ==
    IF out.err # ""
    THEN requestFails(query, args, fault, Wrap(out.err, "cannot get item"),
                      "GetAttributes", itemName)
    ELSE queryReturns(query, args, fault,
            [NoRows EXCEPT !.kind = "get", !.cm = setColumns(q.ColumnNames),
                           !.item = getAttributesItem(itemName, out.Attributes)],
            "GetAttributes", itemName,
            [newCursor(hist) EXCEPT !.attributes = out.Attributes])

\* getAttributes; key is q.Key.String(args)
getAttributes(query, q, args, fault, key) ==
    IF key.panic THEN queryFails(query, args, fault, NoError, TRUE, 0)
    ELSE IF key.err # NoError THEN queryFails(query, args, fault, key.err, FALSE, 0)
    ELSE getAttributesOutput(query, q, args, fault, key.s,
            GetAttributes(domains, items, getAttributesInput(conn, q, key.s), fault))

\* a selectNext that keeps a token whatever the answer carries
selectNextTokenKept(r, out) ==
    IF out.err # "" THEN r
    ELSE [r EXCEPT !.input.NextToken = [has |-> TRUE, seen |-> out.NextToken.seen],
                   !.items = out.Items]

\* selectNext with the answer out of the store: the cursor after it
selectNext(r, out) ==
    IF out.err # "" THEN r
    ELSE [r EXCEPT !.input.NextToken = out.NextToken, !.items = out.Items]

\* the history after the answer out
fetch(h, out) ==
    [h EXCEPT !.asOf = h.written, !.fetched = @ \o out.Items,
              !.sizes = Append(@, Len(out.Items)), !.token = out.NextToken.has]

\* selectQuery from the answer out of the store to the first selectNext on
selectQueryOutput(query, args, fault, r, out) ==
    IF out.err # ""
    THEN requestFails(query, args, fault, StoreError(out.err), "Select", "")
    ELSE queryReturns(query, args, fault, selectNext(r, out), "Select", "",
                      fetch(newCursor(hist), out))

\* selectQuery; e is the select expression or the error of makeSelectExpression
\* selectQuery with the cursor r of newRows; the store answers with one of pages
selectQueryRows(query, args, fault, pages, r) ==
    IF fault # ""
    THEN selectQueryOutput(query, args, fault, r,
                           Select(domains, items, r.input, fault, NoPage))
    ELSE \E page \in pages :
            /\ PageOf(items, r.input, page)
            /\ selectQueryOutput(query, args, fault, r,
                                 Select(domains, items, r.input, fault, page))

\* selectQuery; e is the select expression or the error of makeSelectExpression
selectQuery(query, q, args, fault, pages, e) ==
    IF e.err # NoError
    THEN queryFails(query, args, fault, e.err, FALSE, 0)
    ELSE selectQueryRows(query, args, fault, pages,
            [NoRows EXCEPT !.kind = "select", !.cm = setColumns(q.ColumnNames),
                           !.input = selectInput(q, e.s)])

\* QueryContext after parse.Parse has returned p
queryParsed(query, p, args, fault, pages) ==
    IF ~p.ok
    THEN queryFails(query, args, fault, NewError(p.err), FALSE, 0)
    ELSE IF "Select" \notin p.q.NonNil
         THEN queryFails(query, args, fault,
                         NewError("expect select query for QueryContext"), FALSE, 0)
    ELSE IF ~p.q.HasKey
         THEN selectQuery(query, p.q, args, fault, pages,
                          makeSelectExpression(conn, p.q, args))
    ELSE getAttributes(query, p.q, args, fault, KeyString(p.q.Key, args))

\* QueryContext; pages are the answers the store can give to a Select
QueryContext(query, args, fault, pages) ==
    /\ ~call.active
    /\ rows.state # "open" /\ rows.sent = 0
    /\ UNCHANGED <<domains, items, conn, call>>
    /\ queryParsed(query, Parsed[query], args, fault, pages)

\* What a Next does: step is "eof", "row" (item is the item of the row, values
\* the destination row) or "page" (selectQueryRows.Next calls selectNext);
\* rows is the cursor after it.
nextEOF(r) == [rows |-> r, values |-> <<>>, item |-> <<>>, step |-> "eof"]
nextRow(r, item) ==
    [rows |-> r, values |-> setValues(r.cm, item), item |-> <<item>>, step |-> "row"]

\* a Next that leaves the item in the cursor
getAttributesRowsNextAgain(r) ==
    IF r.item = <<>> THEN nextEOF(r) ELSE nextRow(r, r.item[1])

\* getAttributesRows.Next
getAttributesRowsNext(r) ==
    IF r.item = <<>> THEN nextEOF(r) ELSE nextRow([r EXCEPT !.item = <<>>], r.item[1])

\* a Next to which an empty buffer is the end of the rows
selectQueryRowsNextBuffer(r) ==
    IF Len(r.items) = 0 THEN nextEOF(r)
    ELSE nextRow([r EXCEPT !.items = Tail(@)], r.items[1])

\* selectQueryRows.Next, one iteration of its loop
selectQueryRowsNext(r) ==
    IF Len(r.items) = 0
    THEN IF ~r.input.NextToken.has THEN nextEOF(r)
         ELSE [rows |-> r, values |-> <<>>, item |-> <<>>, step |-> "page"]
    ELSE nextRow([r EXCEPT !.items = Tail(@)], r.items[1])

\* Next returns a row or io.EOF
nextReturns(n) ==
    /\ rows' = [n.rows EXCEPT !.sent = 0]
    /\ last' = [NoLast EXCEPT
                    !.op = "Next", !.eof = (n.step = "eof"), !.values = n.values,
                    !.item = IF n.item = <<>> THEN "" ELSE n.item[1].Name,
                    !.requests = rows.sent,
                    !.request = IF rows.sent > 0 THEN "Select" ELSE ""]
    /\ hist' = IF n.item = <<>> THEN hist
               ELSE [hist EXCEPT !.delivered = Append(@, n.item[1])]

GetAttributesRowsNext ==
    /\ ~call.active /\ rows.state # "none" /\ rows.kind = "get"
    /\ nextReturns(getAttributesRowsNext(rows))
    /\ UNCHANGED <<domains, items, conn, call>>

GetAttributesRowsClose ==
    /\ ~call.active /\ rows.state = "open" /\ rows.kind = "get"
    /\ rows' = [rows EXCEPT !.item = <<>>, !.state = "closed"]
    /\ last' = [NoLast EXCEPT !.op = "Close"]
    /\ UNCHANGED <<domains, items, conn, call, hist>>

\* the most pages the store returns to a cursor
MaxPages == 3

\* the loop of selectQueryRows.Next after the answer out to its selectNext
nextPage(fault, out) ==
    IF out.err # ""
    THEN /\ rows' = [rows EXCEPT !.sent = 0]
         /\ last' = [NoLast EXCEPT
                         !.op = "Next", !.fault = fault, !.requests = rows.sent + 1,
                         !.request = "Select", !.err = StoreError(out.err)]
         /\ hist' = hist
    ELSE /\ rows' = [selectNext(rows, out) EXCEPT !.sent = @ + 1]
         /\ last' = NoLast
         /\ hist' = fetch(hist, out)

\* selectQueryRows.Next when its loop calls selectNext: the request and the
\* answer; Next returns the error of a failed request and else goes on
SelectQueryRowsPage(fault, pages) ==
    /\ ~call.active /\ rows.state # "none" /\ rows.kind = "select"
    /\ selectQueryRowsNext(rows).step = "page"
    /\ Len(hist.sizes) < MaxPages
    /\ IF fault # ""
       THEN nextPage(fault, Select(domains, items, rows.input, fault, NoPage))
       ELSE \E page \in pages :
               /\ PageOf(items, rows.input, page)
               /\ nextPage(fault, Select(domains, items, rows.input, fault, page))
    /\ UNCHANGED <<domains, items, conn, call>>

\* selectQueryRows.Next when its loop ends: a row or io.EOF
SelectQueryRowsNext ==
    /\ ~call.active /\ rows.state # "none" /\ rows.kind = "select"
    /\ selectQueryRowsNext(rows).step # "page"
    /\ nextReturns(selectQueryRowsNext(rows))
    /\ UNCHANGED <<domains, items, conn, call>>

SelectQueryRowsClose ==
    /\ ~call.active /\ rows.state = "open" /\ rows.kind = "select" /\ rows.sent = 0
    /\ rows' = [rows EXCEPT !.items = <<>>, !.state = "closed"]
    /\ last' = [NoLast EXCEPT !.op = "Close"]
    /\ UNCHANGED <<domains, items, conn, call, hist>>

\* the sequences without repetition of elements of S
RECURSIVE Arrangements(_)
Arrangements(S) ==
    {<<>>} \cup UNION {{<<x>> \o p : p \in Arrangements(S \ {x})} : x \in S}

Pages == {[names |-> p, more |-> m] : p \in Arrangements(ItemNames), m \in BOOLEAN}

-----------------------------------------------------------------------------
(* The reads of one item that holds a value of each type *)

ReadValues ==
    {StringV("aaa"), StringV(""), NilV,
     Int64V(0), Int64V(-12), Float64V(3), BoolV(TRUE), BoolV(FALSE),
     TimeV(3723, 0, 0), TimeV(3723, 0, 600), TimeV(86399, 5, 0),
     BinaryV(<<1, 2, 3>>), BinaryV(<<255>>), BinaryV(<<>>)}

ReadStatements == {qCreate, qInsert, qUpdate, qDelete}
ReadQueries == {qSelectKey, qSelectLiteral, qSelectAll}

ReadArgs(query) ==
    IF query = qInsert THEN {<<StringV("ID1"), v>> : v \in ReadValues}
    ELSE IF query = qUpdate THEN {<<v, StringV("ID1")>> : v \in ReadValues}
    ELSE IF query \in {qDelete, qSelectKey} THEN {<<StringV("ID1")>>}
    ELSE {<<>>}

InitRead ==
    /\ domains = {}
    /\ items = {}
    /\ conn = [Schema |-> "", Synonyms |-> {}]
    /\ call = NoCall
    /\ rows = NoRows
    /\ last = NoLast
    /\ hist = [NoHist EXCEPT !.track = TRUE]

\* the store answers a Select of these executions with one page
WholePages == {page \in Pages : ~page.more}

NextRead ==
    \/ \E query \in ReadStatements : \E args \in ReadArgs(query) :
          ExecContext(query, args, "")
    \/ \E fault \in Faults \cup {RequestCanceled} : UpdatePut(fault)
    \/ \E fault \in Faults \cup {RequestCanceled} : UpdateDelete(fault)
    \/ UpdateWait
    \/ \E query \in ReadQueries : \E args \in ReadArgs(query) : \E fault \in Faults :
          QueryContext(query, args, fault, WholePages)
    \/ GetAttributesRowsNext
    \/ GetAttributesRowsClose
    \/ SelectQueryRowsNext
    \/ SelectQueryRowsClose

SpecRead == InitRead /\ [][NextRead]_vars

-----------------------------------------------------------------------------
(* The pages of a general select over the items of a table *)

RowsStatements == {qCreate, qInsert}

RowsArgs(query) ==
    IF query = qInsert THEN {<<StringV(name), StringV("aaa")>> : name \in ItemNames}
    ELSE {<<>>}

NextRows ==
    \/ \E query \in RowsStatements : \E args \in RowsArgs(query) :
          ExecContext(query, args, "")
    \/ \E fault \in Faults : QueryContext(qSelectAll, <<>>, fault, Pages)
    \/ \E fault \in Faults : SelectQueryRowsPage(fault, Pages)
    \/ SelectQueryRowsNext
    \/ SelectQueryRowsClose

SpecRows == Init /\ [][NextRows]_vars

\* The store answers every request of the cursor and its last page, at the
\* latest page MaxPages, carries no token
LivePages ==
    IF Len(hist.sizes) >= MaxPages - 1 THEN {page \in Pages : ~page.more} ELSE Pages

NextRowsLive ==
    \/ \E query \in RowsStatements : \E args \in RowsArgs(query) :
          ExecContext(query, args, "")
    \/ \E fault \in Faults : QueryContext(qSelectAll, <<>>, fault, Pages)
    \/ SelectQueryRowsPage("", LivePages)
    \/ SelectQueryRowsNext

\* the loop of Next goes on once the store has answered, and the caller calls
\* Next again after every row
SpecRowsLive ==
    /\ Init /\ [][NextRowsLive]_vars
    /\ WF_vars(SelectQueryRowsPage("", LivePages))
    /\ WF_vars(SelectQueryRowsNext)

-----------------------------------------------------------------------------
(* makeSelectExpression called on its own, as TestMakeSelectExpression calls it *)

\* general selects: tails with placeholders, literals and the id column
WhereQueries ==
    {"select id, a from t where a > ?",
     "select a, b from t where id = ? and d < ?",
     "select a from t where a = 'it''s' or ~id~ > ? limit 1",
     "select id from t where a = ??",
     "select a from t order by a",
     "select a from t where ID > ?",
     "select a from t where [id] > ? and a = 'id'",
     "select ID from t where a = ? and \"Id\" = ?"}

WhereParsed == [query \in WhereQueries |-> Parse(query)]

\* arguments: strings with and without quotes, a named string type, other kinds
WhereValues ==
    {StringV("X"), StringV("a'b"), StringV("'"), StringV("''z"), StringV(""),
     StringV("id"), NamedV("X'X"), Int64V(7), NilV}

WhereArgs == {<<>>} \cup {<<v>> : v \in WhereValues} \cup (WhereValues \X WhereValues)

\* the call is about to be made with a statement and arguments
Called(op, query, args) == [NoLast EXCEPT !.op = op, !.query = query, !.args = args]

InitExpression ==
    /\ domains = {} /\ items = {}
    /\ conn = [Schema |-> "", Synonyms |-> {}]
    /\ call = NoCall /\ rows = NoRows /\ hist = NoHist
    /\ \E query \in WhereQueries : \E args \in WhereArgs :
          last = Called("call", query, args)

\* c.makeSelectExpression(q.Select, args) for the parsed statement
MakeSelectExpression ==
    /\ last.op = "call"
    /\ last' = [last EXCEPT !.op = "makeSelectExpression",
                            !.ret = makeSelectExpression(conn, WhereParsed[last.query].q,
                                                         last.args)]
    /\ UNCHANGED <<domains, items, conn, call, rows, hist>>

NextExpression == MakeSelectExpression

SpecExpression == InitExpression /\ [][NextExpression]_vars

-----------------------------------------------------------------------------
(* Reads of an item that another program wrote: the column a of the item ID1 *)
(* has any type attribute and any value attribute                            *)

\* the values of the type attribute sql:a
DecodeTags == {"string", "int64", "float64", "bool", "time", "binary", "null", "uuid"}

\* the values of the attribute a
DecodeTexts ==
    {"abc", "12", "-7", "12x", "1.5", "1.5.5", "true", "maybe",
     "2099-12-31T01:02:03Z", "2099-12-31 01:02:03", "AQID", "AQI", "AQID!!!!", "!!!!"}

InitDecode ==
    /\ domains = {"t"}
    /\ \E tags \in {{}} \cup {{tag} : tag \in DecodeTags} :
       \E texts \in {{}} \cup {{text} : text \in DecodeTexts} :
          items = {<<"t", "ID1", "sql:id", "string">>}
                    \cup {<<"t", "ID1", "sql:a", tag>> : tag \in tags}
                    \cup {<<"t", "ID1", "a", text>> : text \in texts}
    /\ conn = [Schema |-> "", Synonyms |-> {}]
    /\ call = NoCall /\ rows = NoRows /\ last = NoLast /\ hist = NoHist

NextDecode ==
    \/ QueryContext(qSelectKey, <<StringV("ID1")>>, "", {NoPage})
    \/ GetAttributesRowsNext
    \/ GetAttributesRowsClose

SpecDecode == InitDecode /\ [][NextDecode]_vars

-----------------------------------------------------------------------------
(* getDomainName called on its own, as TestDomainName calls it *)

Schemas == {"", "dev", "a.b"}

TableNames == {"t", "u", "tbl"}

\* the maps from some of the tables t and u to domain names
SynonymMaps ==
    {{<<"t", d>> : d \in dt} \cup {<<"u", d>> : d \in du} :
        dt \in {{}, {"abc"}, {""}, {"dev.x"}}, du \in {{}, {"abc"}, {"t"}, {"u"}}}

InitDomainName ==
    /\ domains = {} /\ items = {}
    /\ \E schema \in Schemas : \E synonyms \in SynonymMaps :
          conn = [Schema |-> schema, Synonyms |-> synonyms]
    /\ call = NoCall /\ rows = NoRows /\ hist = NoHist
    /\ \E tableName \in TableNames : last = Called("call", tableName, <<>>)

\* c.getDomainName(tableName); the table name is in the place of the statement
GetDomainName ==
    /\ last.op = "call"
    /\ last' = [last EXCEPT !.op = "getDomainName",
                            !.ret = getDomainName(conn, last.query)]
    /\ UNCHANGED <<domains, items, conn, call, rows, hist>>

NextDomainName == GetDomainName

SpecDomainName == InitDomainName /\ [][NextDomainName]_vars

-----------------------------------------------------------------------------
(* Parse called on its own, as the tests of the parse package call it *)

\* updates: columns from placeholders and from literals, in every position
UpdateColumnLists ==
    {"a = ?", "a = 'x'", "a = ?, b = ?", "a = 'x', b = ?", "a = ?, b = 'y'",
     "a = 'what?', b = ?", "a = ?, b = ?, c = ?", "a = ?, -- b = ?\n c = ?"}

KeyValues == {"?", "'k'"}

UpdateTexts ==
    {"update t set " \o c \o " where id = " \o k : c \in UpdateColumnLists, k \in KeyValues}
    \cup {"update t set a = ?", "update t set a = ? where a = ?", "update t a = ?",
          "update t set a = ? where id = ? and b = ?", "update t set a = b where id = ?",
          "upsert t set a = ? where id = ?"}

\* inserts: the id column absent, once and twice, in every position
InsertNameLists ==
    {"id, a", "a, id", "a, b", "id, id", "a, id, b", "id", "a, ID", "id, a, id", "a"}

InsertValueLists == {"?, ?", "'x', ?", "?, 'y'", "?, ?, ?", "?, 'y', ?", "?", "'k'"}

InsertForms ==
    {"insert into t(" \o n \o ") values(" \o v \o ")" :
        n \in InsertNameLists, v \in InsertValueLists}

InsertTexts ==
    InsertForms
    \cup {"insert t(id) values(?)", "insert into t(id, a) values(?, ?",
          "insert into t(id, a) (?, ?)", "insert into t(id, a) values(?, ?) x",
          "insert into t values(?, ?)"}

DeleteTexts ==
    {"delete from t where id = " \o k : k \in KeyValues}
    \cup {"delete t where id = ?", "delete from t", "delete from t where id = ? or a = ?",
          "delete from t where a = ?"}

\* selects: the tail of the point read, and tails that leave it at every step
SelectHeads == {"select a from t", "consistent select id, a from t"}

SelectTails ==
    {"", " where id = ?", " where id = 'k'", " where id = ? and a = ?",
     " where a = ? and id = ?", " where id > ?", " where id", " where id =",
     " where id = a", " where ~id~ = ?", " where ID = ?", " order by a",
     " where id = ? limit 1", " where  id  =  ? ", " where id = ? -- first\n",
     " where a in (?, 'x', ?)", " where a  >  ? -- c\n and b = ? "}

SelectTexts ==
    {h \o t : h \in SelectHeads, t \in SelectTails}
    \cup {"select", "select a", "select a from", "select a, from t", "consistent a from t",
          "select from t"}

TableTexts ==
    {"create table t", "drop table t", "create t", "drop table", "create table t x",
     "CREATE TABLE [my table]", "drop table t, u"}

OtherTexts == {"", "truncate table t", "?", "t", "-- select a from t", "values(?)"}

\* well-formed statements word by word, and the same with one or two of the
\* words replaced by a token that no statement has in that place
Bases ==
    {<<"update", "t", "set", "a", "=", "?", "where", "id", "=", "?">>,
     <<"insert", "into", "t", "(", "id", ")", "values", "(", "?", ")">>,
     <<"delete", "from", "t", "where", "id", "=", "'k'">>,
     <<"create", "table", "t">>,
     <<"select", "a", "from", "t">>}

Corrupt(base, J) == Join([k \in 1..Len(base) |-> IF k \in J THEN "%" ELSE base[k]], " ")

\* the corrupted texts, each with the text that has only its first corruption
Corrupted ==
    {[text |-> Corrupt(base, {j, k}), first |-> Corrupt(base, {j})] :
        <<base, j, k>> \in {<<b, j, k>> \in Bases \X (1..10) \X (1..10) :
                                j <= k /\ k <= Len(b)}}

CorruptTexts == {c.text : c \in Corrupted}

\* texts that the scanner cannot scan: a literal or a delimited identifier
\* without its end, and characters that begin no token
IllegalTexts ==
    {"select a from t where a = 'abc", "select a from t where a = ? and [b = 1",
     "select a from t where a # ?", "select id from t where id = ? #",
     "select a from t #", "select a from t where \"a = ?", "select # from t",
     "select a from t@", "update t set a = 'x where id = ?", "update t set a = ? where id = !",
     "delete from t where id = 'x", "insert into t(id) values('k", "insert into t(id, $) values(?, ?)",
     "create table [t", "drop table #"}

ParseTexts ==
    UpdateTexts \cup InsertTexts \cup DeleteTexts \cup SelectTexts \cup TableTexts
        \cup OtherTexts \cup CorruptTexts \cup IllegalTexts

InitParse ==
    /\ domains = {} /\ items = {}
    /\ conn = [Schema |-> "", Synonyms |-> {}]
    /\ call = NoCall /\ rows = NoRows /\ hist = NoHist
    /\ \E query \in ParseTexts : last = Called("call", query, <<>>)

\* parse.Parse(query)
ParseCall ==
    /\ last.op = "call"
    /\ last' = [last EXCEPT !.op = "Parse", !.ret = Parse(last.query)]
    /\ UNCHANGED <<domains, items, conn, call, rows, hist>>

NextParse == ParseCall

SpecParse == InitParse /\ [][NextParse]_vars

-----------------------------------------------------------------------------
(* An update of two columns while other callers insert and delete the item *)

\* the argument lists with a value for one column and a blank for the other:
\* the update has a put branch and a delete branch
BothQueries == {qUpdateBoth, qUpsertBoth}
BothArgs ==
    {<<StringV("aaa"), StringV(""), StringV("ID1")>>,
     <<NilV, StringV("bbb"), StringV("ID1")>>}

\* the statements of other callers that are counted during one update
MaxOthers == 2

\* the history after a statement of another caller
Other(h, statement) ==
    [h EXCEPT !.others = IF call.active THEN Append(@, statement) ELSE @]

\* Another caller, on a connection of its own, inserts the item: one
\* PutAttributes request, which the store applies between the requests of the
\* update.
OtherInsert(args) ==
    /\ call.active => Len(hist.others) < MaxOthers
    /\ items' = insertRow(conn, Parsed[qInsert].q, args, domains, items, "").items
    /\ hist' = Other(hist, "insert")
    /\ UNCHANGED <<domains, conn, call, rows, last>>

\* Another caller deletes the item: one DeleteAttributes request
OtherDelete(args) ==
    /\ call.active => Len(hist.others) < MaxOthers
    /\ items' = deleteRow(conn, Parsed[qDelete].q, args, domains, items, "").items
    /\ hist' = Other(hist, "delete")
    /\ UNCHANGED <<domains, conn, call, rows, last>>

InitConcurrent ==
    /\ domains = {"t"}
    /\ items = {}
    /\ conn = [Schema |-> "", Synonyms |-> {}]
    /\ call = NoCall /\ rows = NoRows /\ last = NoLast /\ hist = NoHist

NextConcurrent ==
    \/ \E query \in BothQueries : \E args \in BothArgs : ExecContext(query, args, "")
    \/ \E fault \in Faults \cup {RequestCanceled} : UpdatePut(fault)
    \/ \E fault \in Faults \cup {RequestCanceled} : UpdateDelete(fault)
    \/ UpdateWait
    \/ \E v \in {StringV("aaa"), StringV("")} : OtherInsert(<<StringV("ID1"), v>>)
    \/ OtherDelete(<<StringV("ID1")>>)

SpecConcurrent == InitConcurrent /\ [][NextConcurrent]_vars

-----------------------------------------------------------------------------
(* Updates of two columns: the two requests in either order *)

\* updates that name two columns, and one that names a column twice
OrderQueries == {qUpdateBoth, qUpdateTwice}
OrderValues == {StringV("aaa"), StringV(""), NilV}
OrderArgs == {<<v, w, StringV("ID1")>> : v \in OrderValues, w \in OrderValues}

\* the item ID1 exists, with or without a value of the column a
InitOrder ==
    /\ domains = {"t"}
    /\ \E old \in {{}, {<<"t", "ID1", "a", "old">>}} :
          items = {<<"t", "ID1", "sql:id", "string">>, <<"t", "ID1", "sql:a", "string">>}
                    \cup old
    /\ conn = [Schema |-> "", Synonyms |-> {}]
    /\ call = NoCall /\ rows = NoRows /\ last = NoLast /\ hist = NoHist

NextOrder ==
    \/ \E query \in OrderQueries : \E args \in OrderArgs : ExecContext(query, args, "")
    \/ \E fault \in Faults \cup {RequestCanceled} : UpdatePut(fault)
    \/ \E fault \in Faults \cup {RequestCanceled} : UpdateDelete(fault)
    \/ UpdateWait

SpecOrder == InitOrder /\ [][NextOrder]_vars

-----------------------------------------------------------------------------
(* Inserts of one key by several callers at the same time *)

\* the callers; each has its own connection to the same store
NumCallers == 2
Callers == 1..NumCallers

\* the values of the column a that the callers insert
InsertValues == {StringV("aaa"), StringV("bbb"), StringV(""), NilV}

\* a caller that is about to call ExecContext(qInsert, args): state is "ready",
\* then "answered" (the store has answered its request and out is what insertRow
\* returns for the answer), then "returned"
NewCaller(args) == [fault |-> "", args |-> args, state |-> "ready", out |-> <<>>]

InitInserts ==
    /\ domains = {"t"}
    /\ items = {}
    /\ conn = [Schema |-> "", Synonyms |-> {}]
    /\ call = NoCall /\ rows = NoRows /\ last = NoLast
    /\ \E values \in [Callers -> InsertValues] :
          hist = [NoHist EXCEPT
                    !.callers = [k \in Callers |-> NewCaller(<<StringV("ID1"), values[k]>>)]]

\* insertRow of caller k up to the answer of the store to its PutAttributes
InsertRequest(k, fault) ==
    /\ hist.callers[k].state = "ready"
    /\ LET out == insertRow(conn, Parsed[qInsert].q, hist.callers[k].args,
                            domains, items, fault)
       IN /\ items' = out.items
          /\ hist' = [hist EXCEPT !.callers[k].state = "answered",
                                  !.callers[k].fault = fault,
                                  !.callers[k].out = out]
    /\ UNCHANGED <<domains, conn, call, rows, last>>

\* insertRow and ExecContext of caller k return
InsertReturn(k) ==
    /\ hist.callers[k].state = "answered"
    /\ Return("Exec", qInsert, hist.callers[k].args, hist.callers[k].fault,
              [hist.callers[k].out EXCEPT !.domains = domains, !.items = items], <<>>)
    /\ hist' = [hist EXCEPT !.callers[k].state = "returned"]
    /\ UNCHANGED <<conn, call, rows>>

NextInserts ==
    \/ \E k \in Callers : \E fault \in Faults : InsertRequest(k, fault)
    \/ \E k \in Callers : InsertReturn(k)

SpecInserts == InitInserts /\ [][NextInserts]_vars

-----------------------------------------------------------------------------
(* Inserts, updates, upserts and deletes of one item by several callers *)

\* the statements, and the argument lists of each
MarkerQueries == {qInsert, qUpdateBoth, qUpsertBoth, qDelete, qUpdateMarker}
MarkerValues == {StringV("aaa"), StringV("")}
MarkerArgs(query) ==
    IF query = qInsert THEN {<<StringV("ID1"), v>> : v \in MarkerValues}
    ELSE IF query \in BothQueries THEN BothArgs
    ELSE IF query = qUpdateMarker THEN {<<StringV(""), StringV("ID1")>>}
    ELSE {<<StringV("ID1")>>}

\* Another caller updates the item: the store applies one of the two requests
\* of its updateRow, the put or the delete, between the requests of this
\* connection.
OtherUpdate(query, args, branch) ==
    /\ call.active => Len(hist.others) < MaxOthers
    /\ LET in == updateInputs(conn, Parsed[query].q, args)
       IN items' = IF branch = "put"
                   THEN PutAttributes(domains, items, in.put, "").items
                   ELSE DeleteAttributes(domains, items, in.del, "").items
    /\ hist' = Other(hist, "update")
    /\ UNCHANGED <<domains, conn, call, rows, last>>

NextMarker ==
    \/ \E query \in MarkerQueries : \E args \in MarkerArgs(query) :
          ExecContext(query, args, "")
    \/ \E fault \in Faults : UpdatePut(fault)
    \/ \E fault \in Faults : UpdateDelete(fault)
    \/ UpdateWait
    \/ \E args \in MarkerArgs(qInsert) : OtherInsert(args)
    \/ OtherDelete(<<StringV("ID1")>>)
    \/ \E query \in {qUpdateBoth, qUpdateMarker} : \E args \in MarkerArgs(query) :
       \E branch \in {"put", "delete"} : OtherUpdate(query, args, branch)

SpecMarker == InitConcurrent /\ [][NextMarker]_vars

-----------------------------------------------------------------------------
(* create table, drop table and insert on connections of every configuration *)

TableQueries == {qCreate, qDrop, qInsert}

InitTables ==
    /\ domains = {} /\ items = {}
    /\ \E schema \in Schemas : \E synonyms \in SynonymMaps :
          conn = [Schema |-> schema, Synonyms |-> synonyms]
    /\ call = NoCall /\ rows = NoRows /\ last = NoLast /\ hist = NoHist

NextTables ==
    \E query \in TableQueries : \E fault \in Faults :
        ExecContext(query, IF query = qInsert THEN <<StringV("ID1"), StringV("aaa")>> ELSE <<>>,
                    fault)

SpecTables == InitTables /\ [][NextTables]_vars

-----------------------------------------------------------------------------
(* driver.go: calls of Driver.Open at the same time on one Driver.  The      *)
(* handles of the store are numbered: the handle that caller k makes with    *)
(* simpledb.New is k, and a Driver of Connector.Driver holds PresetSDB.      *)

NilSDB == 0
PresetSDB == NumCallers + 1

\* the error of session.NewSessionWithOptions
SessionFailed == "SharedConfigLoadError"

\* the Driver: mutex is the caller that holds it or 0, sdb the handle, writes
\* the assignments to sdb, unguarded an access to sdb without the mutex
NewDriver(sdb) == [sdb |-> sdb, mutex |-> 0, writes |-> 0, unguarded |-> FALSE]

\* a caller of Open: sdb is its local variable, sess its session
NewOpen == [fault |-> "", state |-> "start", sdb |-> NilSDB, sess |-> FALSE]

\* caller k reads or writes d.sdb
access(d, k) == [d EXCEPT !.unguarded = @ \/ d.mutex # k]

\* d.sdb = simpledb.New(sess) whether or not the Driver has a handle
storeAlways(d, k) == [access(d, k) EXCEPT !.sdb = k, !.writes = @ + 1]

\* if d.sdb == nil { d.sdb = simpledb.New(sess) }
storeIfNil(d, k) ==
    IF d.sdb = NilSDB THEN [access(d, k) EXCEPT !.sdb = k, !.writes = @ + 1]
    ELSE access(d, k)

InitOpen ==
    /\ domains = {} /\ items = {}
    /\ conn = [Schema |-> "", Synonyms |-> {}]
    /\ call = NoCall /\ rows = NoRows /\ last = NoLast
    /\ \E sdb \in {NilSDB, PresetSDB} :
          hist = [NoHist EXCEPT !.driver = NewDriver(sdb),
                                !.callers = [k \in Callers |-> NewOpen]]

\* d.mutex.Lock(), the first one or the one after the session
OpenLock(k) ==
    /\ hist.callers[k].state \in {"start", "session"}
    /\ hist.driver.mutex = 0
    /\ hist' = [hist EXCEPT
                  !.driver.mutex = k,
                  !.callers[k].state = IF @ = "start" THEN "locked" ELSE "relocked"]
    /\ UNCHANGED <<domains, items, conn, call, rows, last>>

\* sdb := d.sdb
OpenLoad(k) ==
    /\ hist.callers[k].state = "locked"
    /\ hist' = [hist EXCEPT
                  !.driver = access(@, k),
                  !.callers[k].sdb = hist.driver.sdb,
                  !.callers[k].state = "loaded"]
    /\ UNCHANGED <<domains, items, conn, call, rows, last>>

\* d.mutex.Unlock(), the first one or the one after the session
OpenUnlock(k) ==
    /\ hist.callers[k].state \in {"loaded", "stored"}
    /\ hist' = [hist EXCEPT
                  !.driver.mutex = 0,
                  !.callers[k].state =
                      IF @ = "loaded" /\ hist.callers[k].sdb = NilSDB THEN "nil"
                      ELSE "conn"]
    /\ UNCHANGED <<domains, items, conn, call, rows, last>>

\* session.NewSessionWithOptions returns the session, or the error that Open
\* returns
OpenSession(k, fault) ==
    /\ hist.callers[k].state = "nil"
    /\ hist' = [hist EXCEPT
                  !.callers[k].fault = fault,
                  !.callers[k].sess = (fault = ""),
                  !.callers[k].state = IF fault = "" THEN "session" ELSE "returned"]
    /\ last' = IF fault = "" THEN last
               ELSE [NoLast EXCEPT !.op = "Open", !.fault = fault,
                                   !.err = NewError(fault)]
    /\ UNCHANGED <<domains, items, conn, call, rows>>

\* if d.sdb == nil { d.sdb = simpledb.New(sess) }; sdb = d.sdb
OpenStore(k) ==
    /\ hist.callers[k].state = "relocked"
    /\ hist' = [hist EXCEPT
                  !.driver = storeIfNil(@, k),
                  !.callers[k].sdb = storeIfNil(hist.driver, k).sdb,
                  !.callers[k].state = "stored"]
    /\ UNCHANGED <<domains, items, conn, call, rows, last>>

\* return &conn{SimpleDB: sdb}, nil
OpenReturn(k) ==
    /\ hist.callers[k].state = "conn"
    /\ hist' = [hist EXCEPT !.callers[k].state = "returned"]
    /\ last' = [NoLast EXCEPT !.op = "Open"]
    /\ UNCHANGED <<domains, items, conn, call, rows>>

NextOpen ==
    \/ \E k \in Callers : OpenLock(k)
    \/ \E k \in Callers : OpenLoad(k)
    \/ \E k \in Callers : \E fault \in {"", SessionFailed} : OpenSession(k, fault)
    \/ \E k \in Callers : OpenStore(k)
    \/ \E k \in Callers : OpenUnlock(k)
    \/ \E k \in Callers : OpenReturn(k)

SpecOpen == InitOpen /\ [][NextOpen]_vars

-----------------------------------------------------------------------------
(* Properties of the statements *)

\* this step is the return of the ExecContext call that last' describes
ExecReturned ==
    /\ ~call.active /\ ~call'.active
    /\ last'.op = "Exec"
    /\ ExecContext(last'.query, last'.args, last'.fault)

\* the arguments bind the key: a literal, or a string argument
KeyBinds(key, args) ==
    key.IsLit \/ (key.Ordinal < Len(args) /\ args[key.Ordinal + 1].t = "string")

\* the arguments bind every column: a literal, or an argument of a driver.Value type
ColumnsBind(columns, args) ==
    \A k \in 1..Len(columns) :
        \/ columns[k].IsLit
        \/ /\ columns[k].Ordinal < Len(args)
           /\ args[columns[k].Ordinal + 1].t \in
                {"nil", "string", "int64", "float64", "bool", "time", "binary"}

\* the item a bound key names
KeyOf(key, args) == IF key.IsLit THEN key.Value ELSE args[key.Ordinal + 1].s

\* the call that last describes is a statement of the kind, with key and columns
\* bound, on the table t
Bound(l, kind) ==
    /\ l.op = "Exec"
    /\ Parsed[l.query].ok
    /\ kind \in Parsed[l.query].q.NonNil
    /\ KeyBinds(Parsed[l.query].q.Key, l.args)
    /\ ColumnsBind(Parsed[l.query].q.Columns, l.args)

ItemOf(l) == KeyOf(Parsed[l.query].q.Key, l.args)

Succeeded(l, rowCount) ==
    l.err = NoError /\ ~l.panic /\ l.hasResult /\ l.rowsAffected = rowCount

\* a store failure that is not the benign "item does not exist" of an update
RealFailure(code) == code \notin {"", attributeDoesNotExist}

\* C1: in an existing table and with the store serving the request, insertRow on
\* an item without the marker sql:id succeeds with 1 row affected; on an item
\* with the marker it returns no result and an error whose DuplicateKey() is
\* true, and the attributes of the item are unchanged.
C1_DuplicateInsert ==
    [][(ExecReturned /\ Bound(last', "Insert") /\ "t" \in domains /\ last'.fault = "")
        => IF ~HasAttribute(items, "t", ItemOf(last'), "sql:id")
           THEN Succeeded(last', 1)
           ELSE /\ ~last'.hasResult /\ ~last'.panic
                /\ last'.err # NoError /\ last'.err.dup
                /\ AttributesOf(items', "t", ItemOf(last')) = AttributesOf(items, "t", ItemOf(last'))
      ]_vars

\* an insert of an existing key has returned the duplicate key error
C1_Witness ==
    /\ Bound(last, "Insert") /\ last.err.dup /\ ~last.hasResult
    /\ HasAttribute(items, "t", ItemOf(last), "sql:id")

\* C2: a non-upsert update that runs alone, in an existing table and with its
\* requests served, reports 1 row affected when the item had the marker sql:id
\* when it began (with a put only, or a put and a delete), and 0 rows and no
\* error when the item did not exist, in which case the store is unchanged.
C2_UpdateRowCount ==
    [][(/\ UpdateWait
        /\ ~Parsed[call.query].q.Upsert
        /\ "t" \in domains
        /\ \A k \in 1..Len(call.order) :
              call.order[k][2] \notin {ServiceUnavailable, RequestCanceled})
        => /\ HasAttribute(call.before, "t", ItemOf(last'), "sql:id")
                => Succeeded(last', 1)
           /\ AttributesOf(call.before, "t", ItemOf(last')) = {}
                => Succeeded(last', 0) /\ items' = call.before
      ]_vars

\* an update of an item that does not exist has returned 0 rows after both branches
C2_Witness ==
    /\ Bound(last, "Update") /\ Succeeded(last, 0) /\ Len(last.branches) = 2
    /\ AttributesOf(items, "t", ItemOf(last)) = {}

\* C3: a statement with upsert in place of update is accepted by Parse as an
\* update without precondition; executed (with key and columns bound, in an
\* existing table, with its requests served) for an item that does not exist, it
\* returns no error, writes the item with its marker and reports 1 row affected.
C3_Upsert ==
    [][((ExecReturned \/ UpdateWait) /\ last'.query = qUpsert
            /\ Len(last'.args) = 2 /\ last'.args[2].t = "string"
            /\ last'.args[1].t \in {"nil", "string"}
            /\ "t" \in domains /\ last'.fault = ""
            /\ AttributesOf(items, "t", last'.args[2].s) = {})
        => /\ Parsed[qUpsert].ok
           /\ "Update" \in Parsed[qUpsert].q.NonNil
           /\ Parsed[qUpsert].q.Upsert
           /\ Succeeded(last', 1)
           /\ <<"t", last'.args[2].s, "sql:id", "string">> \in items'
      ]_vars

\* the first answer of the store in branches that is a real failure
RECURSIVE FirstFailure(_)
FirstFailure(branches) ==
    IF RealFailure(Head(branches)[2]) THEN Head(branches) ELSE FirstFailure(Tail(branches))

\* C4: when an update has dispatched a put and a delete branch and at least one
\* of them failed with a store error other than the benign "item does not
\* exist", updateRow returns no row count and the error of the branch that
\* failed first, whatever the other branch answered.
C4_FirstErrorWins ==
    (/\ last.op = "Exec" /\ Len(last.branches) = 2
     /\ \E k \in 1..2 : RealFailure(last.branches[k][2]))
    => /\ ~last.hasResult /\ ~last.panic
       /\ last.err = Wrap(FirstFailure(last.branches)[2],
                          IF FirstFailure(last.branches)[1] = "put"
                          THEN "cannot put attributes"
                          ELSE "cannot delete attributes")

\* an update has returned the error of its delete branch, which failed after
\* the put branch had found the item missing
C4_Witness ==
    /\ last.branches = <<<<"put", attributeDoesNotExist>>, <<"delete", ServiceUnavailable>>>>
    /\ last.err = Wrap(ServiceUnavailable, "cannot delete attributes")

\* C9: in an existing table and with the store serving the request, deleteRow
\* issues one delete that removes every attribute of the addressed item and
\* nothing else, and returns no error and 0 rows affected whether or not the
\* item existed; an insert of the same key that follows it succeeds with 1 row.
C9_DeleteRow ==
    [][/\ (ExecReturned /\ Bound(last', "Delete") /\ "t" \in domains /\ last'.fault = "")
            => /\ Succeeded(last', 0)
               /\ last'.requests = 1
               /\ items' = {x \in items : ~(x[1] = "t" /\ x[2] = ItemOf(last'))}
       /\ (/\ ExecReturned /\ Bound(last', "Insert") /\ "t" \in domains /\ last'.fault = ""
           /\ Bound(last, "Delete") /\ Succeeded(last, 0) /\ ItemOf(last) = ItemOf(last'))
            => Succeeded(last', 1)
      ]_vars

\* a delete has returned 0 rows; its item is gone and another item is left
C9_Witness ==
    /\ Bound(last, "Delete") /\ Succeeded(last, 0)
    /\ AttributesOf(items, "t", ItemOf(last)) = {}
    /\ items # {}

\* the key or a column of the insert, update or delete that l describes cannot be bound
BindingFails(l) ==
    /\ Parsed[l.query].ok
    /\ Parsed[l.query].q.NonNil \cap {"Insert", "Update", "Delete"} # {}
    /\ ~(KeyBinds(Parsed[l.query].q.Key, l.args)
            /\ ColumnsBind(Parsed[l.query].q.Columns, l.args))

\* C10: when Parse fails, or the key or a column value of an insert, update or
\* delete cannot be bound, ExecContext returns an error and sends no request to
\* the store, whose state is unchanged.
C10_FailureBeforeRequest ==
    [][(ExecReturned /\ (~Parsed[last'.query].ok \/ BindingFails(last')))
        => /\ last'.err # NoError /\ ~last'.panic /\ ~last'.hasResult
           /\ last'.requests = 0
           /\ items' = items /\ domains' = domains
      ]_vars

-----------------------------------------------------------------------------
(* Properties of the reads *)

\* the call that last describes is a Next that delivered a row
RowDelivered(l) == l.op = "Next" /\ l.err = NoError /\ ~l.eof

\* the entries of the history of the writes, as of the answer of the store,
\* for the item of the delivered row and the column of slot j of the cursor
WrittenTo(j) ==
    {e \in hist.asOf : /\ e[1] = hist.domain /\ e[2] = last.item
                       /\ <<e[3], j - 1>> \in rows.cm.colmap}

\* a value of a supported type other than the empty string
Supported(v) ==
    \/ v.t \in {"int64", "float64", "bool", "time", "binary"}
    \/ v.t = "string" /\ v.s # ""

\* got is v with the same type; two times are the same as the same instant
Same(got, v) ==
    /\ got.t = v.t
    /\ IF v.t = "time" THEN InstantNs(got) = InstantNs(v) ELSE got = v

\* got is v with the same type; a time is v cut to the second
SameToTheSecond(got, v) ==
    /\ got.t = v.t
    /\ IF v.t = "time" THEN InstantNs(got) = [InstantNs(v) EXCEPT !.ns = 0] ELSE got = v

\* C5 as stated: a row that a select delivers holds, for every column of the
\* cursor that an insert or update last wrote with a value v of a supported
\* type, the value v with the same type.
C5_RoundTripExact ==
    RowDelivered(last) =>
        \A j \in 1..Len(last.values) : \A e \in WrittenTo(j) :
            Supported(e[4]) => Same(last.values[j], e[4])

\* C5: a row that a select (point read or general select) delivers holds, for
\* every column of the cursor that an insert or update last wrote with a value
\* v of a supported type, the value v with the same type, where a time is the
\* instant of v cut to the whole second.
C5_RoundTrip ==
    RowDelivered(last) =>
        \A j \in 1..Len(last.values) : \A e \in WrittenTo(j) :
            Supported(e[4]) => SameToTheSecond(last.values[j], e[4])

\* a general select has delivered the time, written with nanoseconds, of column a
C5_Witness ==
    /\ RowDelivered(last) /\ rows.kind = "select"
    /\ \E e \in hist.asOf : e[2] = last.item /\ e[3] = "a" /\ e[4].t = "time" /\ e[4].ns # 0
    /\ Len(last.values) = 2 /\ last.values[2].t = "time"

\* the update that last describes has set column a of its item to the value v
UpdatedTo(l, v) ==
    /\ Bound(l, "Update") /\ Succeeded(l, 1)
    /\ \E k \in 1..Len(Parsed[l.query].q.Columns) :
          /\ Parsed[l.query].q.Columns[k].ColumnName = "a"
          /\ GetValue(Parsed[l.query].q.Columns[k], l.args).v = v

\* C6: after an update has set a column of an existing item to the empty
\* string the item holds the type attribute "string" of the column and no
\* value attribute, and a select delivers the empty string for the column;
\* after an update has set it to null the type attribute is "null", there is
\* no value attribute, and a select delivers null.
C6_EmptyAndNull ==
    /\ \A v \in {StringV(""), NilV} :
          UpdatedTo(last, v) =>
             /\ <<"t", ItemOf(last), "sql:a", IF v = NilV THEN "null" ELSE "string">> \in items
             /\ ~HasAttribute(items, "t", ItemOf(last), "a")
    /\ RowDelivered(last) =>
          \A j \in 1..Len(last.values) : \A e \in WrittenTo(j) :
             (e[5] = "update" /\ e[4] \in {StringV(""), NilV}) => last.values[j] = e[4]

\* a select has delivered the empty string that an update wrote to column a
C6_Witness ==
    /\ RowDelivered(last)
    /\ <<hist.domain, last.item, "a", StringV(""), "update">> \in hist.asOf
    /\ \E j \in 1..Len(last.values) :
          rows.cm.columns[j] = "a" /\ last.values[j] = StringV("")

\* C7: the items that a general select has fetched are those it has delivered
\* followed by those in its buffer, in the order of the pages and within a
\* page; Next requests a page only with an empty buffer and after an answer
\* that carried a token; and Next returns end-of-data exactly with an empty
\* buffer after an answer that carried no token.
C7_Pages ==
    [][/\ (rows'.kind = "select" /\ rows'.state = "open")
            => hist'.fetched = hist'.delivered \o rows'.items
       /\ (rows.kind = "select" /\ last'.op # "Query"
            /\ (rows'.sent = rows.sent + 1 \/ (last'.op = "Next" /\ last'.err # NoError)))
            => (Len(rows.items) = 0 /\ hist.token)
       /\ (rows.kind = "select" /\ last'.op = "Next" /\ last'.err = NoError)
            => (last'.eof <=> (Len(rows.items) = 0 /\ ~hist.token))
      ]_vars

\* Next has returned end-of-data after it delivered the items of three pages,
\* of which one before the last was empty
C7_Witness ==
    /\ rows.kind = "select" /\ rows.state = "open"
    /\ last.op = "Next" /\ last.eof
    /\ Len(hist.delivered) = 2 /\ Len(hist.sizes) = 3
    /\ \E k \in 1..2 : hist.sizes[k] = 0

\* the call that l describes is a select with the tail where id = (placeholder
\* or literal) of which the key is bound
PointSelect(l) ==
    /\ l.op = "Query"
    /\ Parsed[l.query].ok
    /\ "Select" \in Parsed[l.query].q.NonNil
    /\ Parsed[l.query].q.HasKey
    /\ KeyBinds(Parsed[l.query].q.Key, l.args)

\* the attribute names of a point read of the columns
PointNames(columnNames) ==
    {"sql:id"} \cup UNION {{columnNames[k], "sql:" \o columnNames[k]} :
                              k \in 1..Len(columnNames)}

\* C8: a select with the tail where id = (placeholder or literal) sends one
\* GetAttributes for the item of the key and returns a cursor unless the store
\* fails; a Next of the open cursor delivers a row, the attributes that the
\* store returned, when there are any and no row has been delivered, and else
\* it returns end-of-data; it returns no other error.
C8_PointRead ==
    [][/\ PointSelect(last')
            => /\ last'.requests = 1 /\ last'.request = "GetAttributes"
               /\ last'.item = ItemOf(last')
               /\ last'.err = NoError <=> (last'.fault = "" /\ "t" \in domains)
               /\ last'.err = NoError
                    => /\ rows'.kind = "get" /\ rows'.state = "open"
                       /\ hist'.attributes =
                            {a \in AttributesOf(items, "t", ItemOf(last')) :
                                a[1] \in PointNames(Parsed[last'.query].q.ColumnNames)}
       /\ (rows.kind = "get" /\ rows.state = "open" /\ last'.op = "Next")
            => /\ last'.err = NoError
               /\ last'.eof <=> (hist.attributes = {} \/ Len(hist.delivered) > 0)
               /\ ~last'.eof
                    => last'.values = setValues(rows.cm, [Name |-> last'.item,
                                                         Attributes |-> hist.attributes])
      ]_vars

\* the cursor of a point read has delivered its row and then end-of-data
C8_Witness ==
    /\ rows.kind = "get" /\ rows.state = "open"
    /\ last.op = "Next" /\ last.eof
    /\ Len(hist.delivered) = 1 /\ hist.attributes # {}

-----------------------------------------------------------------------------
(* Properties of the binding *)

RECURSIVE Placeholders(_, _)
\* the number of placeholder lexemes among the lexemes from k on
Placeholders(lexemes, k) ==
    IF k > Len(lexemes) THEN 0
    ELSE (IF lexemes[k] = "?" THEN 1 ELSE 0) + Placeholders(lexemes, k + 1)

\* the ordinals that the key and the columns of q take from the arguments
OrdinalsUsed(q) ==
    (IF q.Key.IsLit \/ ("Select" \in q.NonNil /\ ~q.HasKey) \/ q.NonNil \cap
            {"Select", "Insert", "Update", "Delete"} = {}
     THEN {} ELSE {q.Key.Ordinal})
    \cup {q.Columns[k].Ordinal : k \in {j \in 1..Len(q.Columns) : ~q.Columns[j].IsLit}}

\* the number of arguments that q needs: its highest ordinal plus one
ArgsNeeded(q) ==
    IF "Select" \in q.NonNil /\ ~q.HasKey THEN Placeholders(q.WhereClause, 1)
    ELSE IF OrdinalsUsed(q) = {} THEN 0
    ELSE 1 + CHOOSE n \in OrdinalsUsed(q) : \A m \in OrdinalsUsed(q) : m <= n

\* the call that l describes is the execution of a statement with too few arguments
TooFewArgs(l) ==
    /\ Parsed[l.query].ok
    /\ \/ l.op = "Exec" /\ Parsed[l.query].q.NonNil \cap {"Insert", "Update", "Delete"} # {}
       \/ l.op = "Query" /\ "Select" \in Parsed[l.query].q.NonNil
    /\ Len(l.args) < ArgsNeeded(Parsed[l.query].q)

\* C11: a statement executed with fewer arguments than its highest placeholder
\* ordinal plus one returns an error whose message begins "not enough args",
\* for the key, for a column value and for a placeholder of a general select,
\* and it does not panic.
C11_NotEnoughArgs ==
    [][(last'.op \in {"Exec", "Query"} /\ TooFewArgs(last'))
        => /\ ~last'.panic
           /\ HasPrefix(last'.err.msg, "not enough args")
      ]_vars

-----------------------------------------------------------------------------
(* Properties of create table and drop table *)

\* C12: whenever the store serves the request, create table t returns no error
\* and reports 1 row affected whether or not the domain exists, and so does
\* drop table t; afterwards the domain exists, respectively does not, so that
\* every sequence of creates and drops of the table returns no error.
C12_CreateDropIdempotent ==
    [][(ExecReturned /\ last'.query \in {qCreate, qDrop} /\ last'.fault = "")
        => /\ Succeeded(last', 1)
           /\ last'.requests = 1
           /\ last'.query = qCreate => domains' = domains \cup {"t"} /\ items' = items
           /\ last'.query = qDrop
                => domains' = domains \ {"t"} /\ items' = {x \in items : x[1] # "t"}
      ]_vars

\* create table has succeeded on a table that existed: it holds an item
C12_Witness ==
    /\ last.op = "Exec" /\ last.query = qCreate /\ Succeeded(last, 1)
    /\ \E x \in items : x[1] = "t"

-----------------------------------------------------------------------------
(* Properties of makeSelectExpression *)

RECURSIVE Doubled(_)
\* s with every single quote written twice
Doubled(s) ==
    IF s = "" THEN ""
    ELSE (IF Head(s) = "'" THEN "''" ELSE Head(s)) \o Doubled(Tail(s))

\* the literal for the string s
LiteralOf(s) == "'" \o Doubled(s) \o "'"

\* text is exactly one string literal, and its unquoted value is s
IsLiteralOf(text, s) ==
    /\ Scan(text, 1, FALSE).tok = TokenLiteral
    /\ Scan(text, 1, FALSE).text = text
    /\ Unquote(text) = s

RECURSIVE RenderedTail(_, _, _, _)
\* the lexemes from k on with the id column rewritten and the placeholders,
\* of which i precede k, replaced by the literals of their arguments
RenderedTail(lexemes, args, k, i) ==
    IF k > Len(lexemes) THEN ""
    ELSE IF lexemes[k] = "?"
         THEN LiteralOf(args[i + 1].s) \o RenderedTail(lexemes, args, k + 1, i + 1)
    ELSE (IF lexemes[k] \in {"id", BackQuote \o "id" \o BackQuote} THEN "itemName()"
          ELSE lexemes[k]) \o RenderedTail(lexemes, args, k + 1, i)

HasSuffix(s, suffix) ==
    Len(s) >= Len(suffix) /\ SubSeq(s, Len(s) - Len(suffix) + 1, Len(s)) = suffix

\* the arguments of the first n placeholders are there and are strings
StringArgs(args, n) ==
    Len(args) >= n /\ \A i \in 1..n : args[i].t \in {"string", "named"}

\* the first placeholder without a string argument has an argument of another kind
OtherKindFirst(args, n) ==
    \E i \in 1..n : /\ i <= Len(args) /\ args[i].t \notin {"string", "named"}
                    /\ \A j \in 1..(i - 1) : args[j].t \in {"string", "named"}

\* C13: makeSelectExpression replaces the i-th placeholder lexeme of the tail
\* with the literal of the i-th argument, single-quoted with every quote
\* doubled; that text is exactly one string literal whose unquoted value is the
\* argument.  When the argument of a placeholder is not of kind string it
\* returns the error all args to a select query must be strings and no expression.
C13_Placeholders ==
    last.op = "makeSelectExpression"
        => LET lexemes == WhereParsed[last.query].q.WhereClause
               n == Placeholders(lexemes, 1)
           IN /\ StringArgs(last.args, n)
                    => /\ last.ret.err = NoError
                       /\ HasSuffix(last.ret.s, " " \o RenderedTail(lexemes, last.args, 1, 0))
                       /\ \A i \in 1..n :
                            IsLiteralOf(LiteralOf(last.args[i].s), last.args[i].s)
              /\ OtherKindFirst(last.args, n)
                    => /\ last.ret.s = ""
                       /\ last.ret.err = NewError("all args to a select query must be strings")

\* two placeholders have been replaced, one of them by a string with a quote
C13_Witness ==
    /\ last.op = "makeSelectExpression"
    /\ last.query = "select a, b from t where id = ? and d < ?"
    /\ last.args = <<StringV("a'b"), NamedV("X'X")>>
    /\ last.ret.s = "select ~sql:id~, ~a~, ~sql:a~, ~b~, ~sql:b~ from ~t~ "
                        \o "where itemName() = 'a''b' and d < 'X''X'"

-----------------------------------------------------------------------------
(* Properties of Parse *)

\* the tokens of the text that are placeholders or literals, in source order
ValueTokens(tokens) ==
    SelectSeq(tokens, LAMBDA t : t.tok \in {TokenPlaceholder, TokenLiteral})

\* the number of placeholders among the first j - 1 of the value tokens
PlaceholdersBefore(values, j) ==
    Cardinality({i \in 1..(j - 1) : values[i].tok = TokenPlaceholder})

RECURSIVE IndexOfText(_, _, _)
\* the index of the first token from i on with the text, or past the end
IndexOfText(tokens, text, i) ==
    IF i > Len(tokens) \/ tokens[i].text = text THEN i
    ELSE IndexOfText(tokens, text, i + 1)

\* the column names that an insert lists between its first parentheses
InsertNames(tokens) ==
    LET inside == SubSeq(tokens, IndexOfText(tokens, "(", 1) + 1,
                         IndexOfText(tokens, ")", 1) - 1)
        idents == SelectSeq(inside, LAMBDA t : t.tok = TokenIdent)
    IN [k \in 1..Len(idents) |-> Unquote(idents[k].text)]

\* a key or a column as a value source
SourceOf(x) == [Ordinal |-> x.Ordinal, IsLit |-> x.IsLit, Value |-> x.Value]

RECURSIVE MergeKey(_, _, _, _)
\* the value sources of an insert in the order of its names from name k on:
\* the key for the id column, and the columns in their order for the others
MergeKey(names, k, key, columns) ==
    IF k > Len(names) THEN <<>>
    ELSE IF IsID(names[k])
         THEN <<SourceOf(key)>> \o MergeKey(names, k + 1, key, columns)
    ELSE IF columns = <<>> THEN <<>>
    ELSE <<SourceOf(Head(columns))>> \o MergeKey(names, k + 1, key, Tail(columns))

\* the value sources of q in the order of the text
SourcesInOrder(q, tokens) ==
    IF "Insert" \in q.NonNil THEN MergeKey(InsertNames(tokens), 1, q.Key, q.Columns)
    ELSE IF "Update" \in q.NonNil
         THEN [k \in 1..Len(q.Columns) |-> SourceOf(q.Columns[k])] \o <<SourceOf(q.Key)>>
    ELSE IF "Delete" \in q.NonNil \/ q.HasKey THEN <<SourceOf(q.Key)>>
    ELSE <<>>

\* the sources are those of the value tokens: a placeholder has the ordinal
\* that counts the placeholders before it, a literal has its unquoted text
SourcesMatch(sources, values) ==
    /\ Len(sources) = Len(values)
    /\ \A j \in 1..Len(sources) :
        IF values[j].tok = TokenPlaceholder
        THEN ~sources[j].IsLit /\ sources[j].Ordinal = PlaceholdersBefore(values, j)
        ELSE sources[j].IsLit /\ sources[j].Value = Unquote(values[j].text)

\* the ordinals of the placeholder sources are pairwise distinct and are 0..n-1
OrdinalsRange(sources) ==
    LET from == {j \in 1..Len(sources) : ~sources[j].IsLit}
    IN /\ \A i, j \in from : sources[i].Ordinal = sources[j].Ordinal => i = j
       /\ {sources[j].Ordinal : j \in from} = 0..(Cardinality(from) - 1)

\* the statement has a key: insert, update, delete, and the select of one item
Keyed(q) == q.NonNil \cap {"Insert", "Update", "Delete"} # {} \/ q.HasKey

\* the value sources of the parsed statement against the value tokens of the text
SourcesOfText(q, tokens) ==
    /\ SourcesMatch(SourcesInOrder(q, tokens), ValueTokens(tokens))
    /\ OrdinalsRange(SourcesInOrder(q, tokens))

\* C14: in a parsed insert, update, delete or select of one item every
\* placeholder has the zero-based ordinal that counts the placeholder tokens
\* before it in the text, whatever its clause; a literal takes no ordinal; the
\* ordinals of the columns and the key are pairwise distinct and are 0..n-1.
C14_Ordinals ==
    (last.op = "Parse" /\ last.ret.ok /\ Keyed(last.ret.q))
        => SourcesOfText(last.ret.q, ScanAll(last.query, 1))

\* an insert with a literal between two placeholders and the key in the middle
C14_Witness ==
    /\ last.op = "Parse" /\ last.ret.ok
    /\ last.query = "insert into t(a, id, b) values(?, 'y', ?)"
    /\ last.ret.q.Key.IsLit
    /\ last.ret.q.Columns[2].Ordinal = 1

\* the value source that Parse gives to a value token: j is its index among values
ExpectedSource(values, j) ==
    IF values[j].tok = TokenPlaceholder
    THEN [Ordinal |-> PlaceholdersBefore(values, j), IsLit |-> FALSE, Value |-> ""]
    ELSE [Ordinal |-> 0, IsLit |-> TRUE, Value |-> Unquote(values[j].text)]

\* the positions of the names that are the id column
IDs(names) == {k \in 1..Len(names) : IsID(names[k])}

RECURSIVE OtherColumns(_, _, _)
\* the names from k on that are not the id column, each with the source of its value
OtherColumns(names, values, k) ==
    IF k > Len(names) THEN <<>>
    ELSE (IF IsID(names[k]) THEN <<>>
          ELSE <<[ColumnName |-> names[k],
                  Ordinal |-> ExpectedSource(values, k).Ordinal,
                  IsLit |-> ExpectedSource(values, k).IsLit,
                  Value |-> ExpectedSource(values, k).Value]>>)
         \o OtherColumns(names, values, k + 1)

\* what Parse returns for an insert with the names and the values
InsertOf(r, names, values) ==
    /\ Cardinality(IDs(names)) = 1
        => /\ r.ok
           /\ r.q.NonNil = {"Insert"}
           /\ r.q.Key = ExpectedSource(values, CHOOSE k \in IDs(names) : TRUE)
           /\ r.q.Columns = OtherColumns(names, values, 1)
           /\ \A k \in 1..Len(r.q.Columns) : ~IsID(r.q.Columns[k].ColumnName)
    /\ Cardinality(IDs(names)) = 0
        => ~r.ok /\ r.err = "missing id column in insert statement"
    /\ Cardinality(IDs(names)) >= 2
        => ~r.ok /\ r.err = "duplicate id column in insert statement"
    /\ r.ok => Cardinality(IDs(names)) = 1

\* the insert lists as many names as values
InsertForm(query, tokens) ==
    query \in InsertForms /\ Len(InsertNames(tokens)) = Len(ValueTokens(tokens))

InsertOfText(r, query, tokens) ==
    (InsertForm(query, tokens) \/ (r.ok /\ "Insert" \in r.q.NonNil))
        => InsertOf(r, InsertNames(tokens), ValueTokens(tokens))

\* C15: a parsed insert named the id column exactly once; the value source of
\* that entry is the Key, and Columns are the other columns in their order
\* with their value sources, none of them the id column.  An insert that is
\* well formed but for its id column fails with missing id column in insert
\* statement when it has none and with duplicate id column in insert statement
\* when it has two or more.
C15_InsertKey ==
    last.op = "Parse" => InsertOfText(last.ret, last.query, ScanAll(last.query, 1))

\* the id column was the second of three and came from a placeholder
C15_Witness ==
    /\ last.op = "Parse" /\ last.ret.ok
    /\ last.query = "insert into t(a, id, b) values(?, ?, ?)"
    /\ last.ret.q.Key.Ordinal = 1
    /\ Len(last.ret.q.Columns) = 2

RECURSIVE IdentFrom(_, _)
\* the index of the first identifier from i on
IdentFrom(tokens, i) ==
    IF i > Len(tokens) \/ tokens[i].tok = TokenIdent THEN i ELSE IdentFrom(tokens, i + 1)

\* the tokens of a select after its table name, without the end of input
TailTokens(tokens) ==
    SubSeq(tokens, IdentFrom(tokens, FromIndex(tokens, 1) + 1) + 1, Len(tokens) - 1)

\* the tokens that are neither white space nor comment
Significant(tokens) ==
    SelectSeq(tokens, LAMBDA t : t.tok \notin {TokenWhiteSpace, TokenComment})

\* the tail is where id = (placeholder or literal) and nothing more
FastPath(sig) ==
    /\ Len(sig) = 4
    /\ ToLower(sig[1].text) = "where"
    /\ sig[2].tok = TokenIdent /\ Unquote(sig[2].text) = "id"
    /\ sig[3].text = "="
    /\ sig[4].tok \in {TokenPlaceholder, TokenLiteral}

RECURSIVE TailLexemes(_, _, _)
\* the texts of the tokens from k on in source order, after acc: a comment is
\* dropped, white space is one blank, and none at the start or after a blank
TailLexemes(tail, k, acc) ==
    IF k > Len(tail) THEN acc
    ELSE IF tail[k].tok = TokenComment THEN TailLexemes(tail, k + 1, acc)
    ELSE IF tail[k].tok = TokenWhiteSpace
         THEN TailLexemes(tail, k + 1,
                IF acc # <<>> /\ acc[Len(acc)] # " " THEN Append(acc, " ") ELSE acc)
    ELSE TailLexemes(tail, k + 1, Append(acc, tail[k].text))

\* the Key and the WhereClause of the select q with the tail
SelectOfTail(q, tail) ==
    /\ ~(q.HasKey /\ q.WhereClause # <<>>)
    /\ q.HasKey <=> FastPath(Significant(tail))
    /\ q.HasKey
        => /\ q.Key = ExpectedSource(Significant(tail), 4)
           /\ q.WhereClause = <<>>
    /\ ~q.HasKey
        => /\ q.Key = NewKey
           /\ q.WhereClause = TailLexemes(tail, 1, <<>>)

\* C16: in a parsed select the Key and the WhereClause are never both set; the
\* Key is set exactly when the tail is where id = (placeholder or literal)
\* followed by the end of the text, and otherwise the WhereClause holds the
\* lexemes of the whole tail in source order, those that matched the pattern
\* before the mismatch included.
C16_KeyOrWhereClause ==
    (last.op = "Parse" /\ last.ret.ok /\ "Select" \in last.ret.q.NonNil)
        => SelectOfTail(last.ret.q, TailTokens(ScanAll(last.query, 1)))

\* the tail matched the pattern up to the placeholder and then went on
C16_Witness ==
    /\ last.op = "Parse" /\ last.ret.ok
    /\ last.query = "select a from t where id = ? limit 1"
    /\ ~last.ret.q.HasKey
    /\ last.ret.q.WhereClause =
            <<"where", " ", "id", " ", "=", " ", "?", " ", "limit", " ", "1">>

Statements == {"Select", "Insert", "Update", "Delete", "CreateTable", "DropTable"}

\* the errors of the texts that have one corruption
FirstErrors == [text \in {c.first : c \in Corrupted} |-> Parse(text).err]

\* Parse of a text of which the first violation is the token % returns the
\* error of that violation, whatever follows it
FirstViolation(query, r) ==
    \A c \in Corrupted :
        c.text = query
            => /\ ~r.ok
               /\ r.err = FirstErrors[c.first]
               /\ HasSuffix(r.err, Quoted("%"))

\* C17: a successful Parse returns a Query in which exactly one of Select,
\* Insert, Update, Delete, CreateTable and DropTable is not nil; a failed Parse
\* returns no Query and one error, that of the first violation of the grammar.
C17_OneStatementOrOneError ==
    last.op = "Parse"
        => /\ last.ret.ok
                => /\ last.ret.err = ""
                   /\ Cardinality(last.ret.q.NonNil) = 1
                   /\ last.ret.q.NonNil \subseteq Statements
           /\ ~last.ret.ok
                => /\ last.ret.err # ""
                   /\ last.ret.q = NewQuery
           /\ FirstViolation(last.query, last.ret)

\* an update with two violations has failed with the error of the first
C17_Witness ==
    /\ last.op = "Parse" /\ ~last.ret.ok
    /\ last.query = "update t % a = ? where % = ?"
    /\ last.ret.err = "expected \"set\", found \"%\""

-----------------------------------------------------------------------------
(* Properties of getDomainName *)

\* the domain names that the synonyms give to the table
SynonymsOf(c, tableName) == {sy[2] : sy \in {x \in c.Synonyms : x[1] = tableName}}

\* C18: getDomainName(t) is Synonyms[t] when t has an entry in Synonyms,
\* whatever the Schema; otherwise it is Schema, a period and t when Schema is
\* not blank, and otherwise t.
C18_DomainName ==
    last.op = "getDomainName"
        => /\ SynonymsOf(conn, last.query) # {}
                => SynonymsOf(conn, last.query) = {last.ret}
           /\ (SynonymsOf(conn, last.query) = {} /\ conn.Schema # "")
                => last.ret = conn.Schema \o "." \o last.query
           /\ (SynonymsOf(conn, last.query) = {} /\ conn.Schema = "")
                => last.ret = last.query

\* a table with a synonym under a schema: the synonym, without the schema
C18_Witness ==
    /\ last.op = "getDomainName"
    /\ conn.Schema = "dev" /\ <<"t", "abc">> \in conn.Synonyms
    /\ last.query = "t" /\ last.ret = "abc"

-----------------------------------------------------------------------------
(* Properties of setValues *)

\* the texts that are well formed for a type
WellFormed ==
    {<<"int64", "12">>, <<"int64", "-7">>,
     <<"float64", "12">>, <<"float64", "-7">>, <<"float64", "1.5">>,
     <<"bool", "true">>, <<"time", "2099-12-31T01:02:03Z">>, <<"binary", "AQID">>,
     <<"binary", "true">>}

\* the zero value of a type; of binary the nil or empty bytes; nil for a type
\* that is not recognised
ZeroOf(tag) ==
    IF tag = "int64" THEN {Int64V(0)}
    ELSE IF tag = "float64" THEN {Float64V(0)}
    ELSE IF tag = "bool" THEN {BoolV(FALSE)}
    ELSE IF tag = "time" THEN {ZeroTime}
    ELSE IF tag = "binary" THEN {NilV, BinaryV(<<>>)}
    ELSE {NilV}

\* the slot of a column with the type attributes tags and the value text
Materialized(slot, tags, text) ==
    IF tags = {} \/ tags = {"string"} THEN slot = StringV(text)
    ELSE \A tag \in tags : <<tag, text>> \notin WellFormed => slot \in ZeroOf(tag)

\* C19: materializing a fetched item never fails; a value attribute whose text
\* is malformed for its type attribute, or whose type attribute is not a
\* recognised type, yields the zero value of the type in its slot, and a value
\* attribute without type attribute is decoded as a string.
C19_ZeroOnMalformed ==
    last.op = "Next"
        => /\ last.err = NoError /\ ~last.panic
           /\ ~last.eof
                => \A x \in items :
                        x[3] = "a"
                            => Materialized(last.values[1],
                                    {y[4] : y \in {z \in items : z[3] = "sql:a"}}, x[4])

-----------------------------------------------------------------------------
(* Properties of an update among other callers *)

\* the update of two columns returned a row count
Counted == last.op = "Exec" /\ last.query \in BothQueries /\ last.hasResult

\* the branches of the update that the store applied
Applied == {k \in 1..Len(last.branches) : last.branches[k][2] = ""}

\* C20: when an update that has a put branch and a delete branch runs among
\* other callers' insert and delete statements on the same item, a row count of
\* 1 means that both branches were applied to the item, and a row count of 0
\* that neither was.
C20_BothOrNeither ==
    Counted
        => /\ last.rowsAffected = 1 => Cardinality(Applied) = 2
           /\ last.rowsAffected = 0 => Applied = {}

\* C20 as the code has it: a row count of 1 means that at least one branch was
\* applied to the item, a row count of 0 that neither was; the row count is one
\* of the two, and both branches have returned.
C20_OneOrNeither ==
    Counted
        => /\ last.rowsAffected \in {0, 1}
           /\ Len(last.branches) = 2
           /\ last.rowsAffected = 1 <=> Applied # {}

\* an update returned 1 with one branch applied, after another caller had
\* deleted or inserted the item between its two requests
C20_Witness ==
    /\ Counted /\ last.rowsAffected = 1
    /\ Cardinality(Applied) = 1
    /\ hist.others # <<>>

-----------------------------------------------------------------------------
(* Properties of the two requests of an update *)

\* the attribute names of the put request and of the delete request in flight
PutNames == {call.putInput.Attributes[k].Name : k \in 1..Len(call.putInput.Attributes)}
DeleteNames == {call.deleteInput.Attributes[k] : k \in 1..Len(call.deleteInput.Attributes)}

\* the store after the two requests, applied to the store its in either order
PutThenDelete(its) ==
    DeleteAttributes(domains, PutAttributes(domains, its, call.putInput, "").items,
                     call.deleteInput, "").items
DeleteThenPut(its) ==
    PutAttributes(domains, DeleteAttributes(domains, its, call.deleteInput, "").items,
                  call.putInput, "").items

\* both requests of the update in flight have been applied by the store
BothApplied ==
    /\ call.active /\ Len(call.order) = 2
    /\ \A k \in 1..2 : call.order[k][2] = ""

\* C21: for every update statement that Parse accepts, the attribute names of
\* the put request and of the delete request are disjoint, so that the item is
\* the same after the two requests whichever the store applies first.
C21_DisjointNames ==
    call.active
        => /\ PutNames \cap DeleteNames = {}
           /\ BothApplied
                => /\ items = PutThenDelete(call.before)
                   /\ items = DeleteThenPut(call.before)

-----------------------------------------------------------------------------
(* Properties of inserts at the same time *)

\* the store has answered every caller, and no request failed on its way
AllAnswered ==
    \A k \in Callers : hist.callers[k].state # "ready" /\ hist.callers[k].fault = ""

\* the callers whose insert returned success with 1 row affected
Winners ==
    {k \in Callers : LET out == hist.callers[k].out
                     IN out.err = NoError /\ out.hasResult /\ out.rowsAffected = 1}

\* the callers whose insert returned a duplicate-key error
Losers ==
    {k \in Callers : LET out == hist.callers[k].out
                     IN out.err # NoError /\ out.err.dup /\ ~out.hasResult}

\* the attributes that an insert of the value v of the column a stores
InsertedAttributes(v) ==
    {<<"sql:id", "string">>, <<"sql:a", IF v.t = "nil" THEN "null" ELSE v.t>>}
        \cup (IF v.t = "string" /\ v.s # "" THEN {<<"a", v.s>>} ELSE {})

\* C22: when several callers insert the same key of a table at the same time
\* and the item does not exist, exactly one insert returns success with 1 row
\* affected, every other one returns a duplicate-key error, and the item holds
\* exactly the attributes of the successful insert.
C22_OneInsertWins ==
    AllAnswered
        => /\ Cardinality(Winners) = 1
           /\ Losers = Callers \ Winners
           /\ \A k \in Winners :
                AttributesOf(items, "t", "ID1") = InsertedAttributes(hist.callers[k].args[2])

\* two callers have returned from inserts of different values: one has won
C22_Witness ==
    /\ AllAnswered
    /\ \A k \in Callers : hist.callers[k].state = "returned"
    /\ \E k \in Winners : \E j \in Losers :
          hist.callers[k].args[2] # hist.callers[j].args[2]
    /\ last.op = "Exec"

-----------------------------------------------------------------------------
(* Properties of the existence marker *)

\* the items of the store that have at least one attribute
ItemsStored == {<<x[1], x[2]>> : x \in items}

\* C23: in every store state that insert, update, upsert and delete statements
\* reach from an empty domain, in any interleaving, every item that has an
\* attribute has the attribute sql:id with the value "string".
C23_MarkerAlways ==
    \A i \in ItemsStored : <<i[1], i[2], "sql:id", "string">> \in items

-----------------------------------------------------------------------------
(* Properties of the domain of a table *)

\* the call that returns in this step is the statement query, without an error
Succeeds(query) ==
    /\ last'.op = "Exec" /\ last'.query = query
    /\ last'.err = NoError /\ last'.hasResult

\* C24: for every configuration of the connection (any Schema, any Synonyms),
\* drop table t deletes exactly the domain that create table t creates,
\* getDomainName(t), which is also the domain that insert, update, delete and
\* select on t address.
C24_DropDeletesDomain ==
    [][LET d == getDomainName(conn, "t")
       IN /\ Succeeds(qCreate) => domains' = domains \cup {d} /\ items' = items
          /\ Succeeds(qDrop) => /\ domains' = domains \ {d}
                                /\ items' = {x \in items : x[1] # d}
          /\ Succeeds(qInsert) => /\ domains' = domains
                                  /\ \A x \in items' \ items : x[1] = d
      ]_vars

-----------------------------------------------------------------------------
(* Properties of the slot of the key *)

\* Next has delivered a row of the cursor
Delivered == last.op = "Next" /\ last.err = NoError /\ ~last.eof /\ ~last.panic

\* the values that the item of the row has for the attribute name
ValuesOf(name) == {x[4] : x \in {y \in items : y[2] = last.item /\ y[3] = name}}

\* C25: setValues writes the key of the item to a slot only when the id column
\* is among the requested columns, and then to the slot of that column; a
\* requested column other than id for which the item has neither a value
\* attribute nor a type attribute is reported as null.
C25_KeySlot ==
    Delivered
        => \A j \in 1..Len(rows.cm.columns) :
              LET column == rows.cm.columns[j]
              IN ~IsID(column)
                    => /\ last.values[j] = StringV(last.item)
                            => last.item \in ValuesOf(column)
                       /\ (ValuesOf(column) = {} /\ ValuesOf(typeColumnName(column)) = {})
                            => last.values[j] = NilV

-----------------------------------------------------------------------------
(* Properties of the texts that cannot be scanned *)

\* the texts of the Illegal tokens that the scanner produces for the text
IllegalLexemes(query) ==
    LET tokens == ScanAll(query, 1)
    IN {tokens[k].text : k \in {j \in 1..Len(tokens) : tokens[j].tok = TokenIllegal}}

\* C26: Parse returns an error for every text in which the scanner produces an
\* Illegal token (a literal or a delimited identifier without its end, or a
\* character that begins no token), wherever the token is, the tail of a
\* select included; no lexeme of an Illegal token is part of a statement that
\* Parse returns.
C26_IllegalRejected ==
    last.op = "Parse"
        => /\ IllegalLexemes(last.query) # {} => ~last.ret.ok
           /\ last.ret.ok
                => \A k \in 1..Len(last.ret.q.WhereClause) :
                      last.ret.q.WhereClause[k] \notin IllegalLexemes(last.query)

-----------------------------------------------------------------------------
(* The id column in the tail of a general select *)

\* the lexeme is an identifier that names the id column
IsIDLexeme(lexeme) ==
    LET tokens == ScanAll(lexeme, 1)
    IN /\ Len(tokens) >= 1
       /\ tokens[1].tok = TokenIdent
       /\ tokens[1].text = lexeme
       /\ IsID(lexeme)

\* the tail with every id identifier rewritten and every placeholder replaced
RECURSIVE RewrittenTail(_, _, _, _)
RewrittenTail(lexemes, args, k, argIndex) ==
    IF k > Len(lexemes) THEN ""
    ELSE IF IsIDLexeme(lexemes[k])
         THEN "itemName()" \o RewrittenTail(lexemes, args, k + 1, argIndex)
    ELSE IF lexemes[k] = "?"
         THEN quoteString(args[argIndex + 1].s)
                 \o RewrittenTail(lexemes, args, k + 1, argIndex + 1)
    ELSE lexemes[k] \o RewrittenTail(lexemes, args, k + 1, argIndex)

\* the expression up to the tail
ExpressionHead(q) ==
    "select "
        \o Join(<<quoteIdentifier("sql:id")>> \o selectColumnNames(q.ColumnNames, 1), ", ")
        \o " from " \o quoteIdentifier(getDomainName(conn, q.TableName)) \o " "

\* C27: in the expression of a general select every identifier of the tail for
\* which IsID is true, bare or delimited and in any letter case, is rewritten to
\* itemName(), and literals and arguments whose text is id are left unchanged
C27_IdRewritten ==
    (last.op = "makeSelectExpression" /\ last.ret.err = NoError)
        => last.ret.s = ExpressionHead(WhereParsed[last.query].q)
                           \o RewrittenTail(WhereParsed[last.query].q.WhereClause,
                                            last.args, 1, 0)

-----------------------------------------------------------------------------
(* The end of a general select *)

\* a general select has returned its cursor
SelectOpen == rows.kind = "select" /\ rows.state = "open"

\* Next has reported the end of the rows
EndOfData == last.op = "Next" /\ last.eof

\* C28: when the store answers every page request and its last page comes
\* after finitely many, every Next of a general select returns after finitely
\* many page requests, the Next calls come to report the end of the rows, and
\* they report it after as many rows as the pages returned held items
C28_NextTerminates ==
    /\ (rows.sent > 0) ~> (rows.sent = 0)
    /\ SelectOpen ~> EndOfData
    /\ [](rows.sent <= MaxPages)
    /\ []((SelectOpen /\ EndOfData) => hist.delivered = hist.fetched)

\* the end of the rows after three pages, one of them empty, and two rows
C28_Witness ==
    /\ SelectOpen /\ EndOfData
    /\ Len(hist.sizes) = 3 /\ \E k \in 1..3 : hist.sizes[k] = 0
    /\ Len(hist.delivered) = 2

-----------------------------------------------------------------------------
(* The cursor after the end of its rows and after Close *)

\* the cursor has been closed, or its last Next reported the end of the rows
Finished == rows.state = "closed" \/ (rows.state = "open" /\ last.op = "Next" /\ last.eof)

\* C29: once Next has reported the end of the rows, or once Close has been
\* called, a later Next of the same cursor reports the end of the rows and
\* sends no request to the store
C29_EndIsFinal ==
    [][(Finished /\ rows'.state = rows.state)
          => /\ last'.op = "Next" => last'.eof /\ last'.requests = 0
             /\ rows'.sent = 0
             /\ hist'.sizes = hist.sizes]_vars

-----------------------------------------------------------------------------
(* Driver.Open called at the same time *)

\* the callers to which Open has returned a connection
Connected == {k \in Callers : hist.callers[k].state = "returned" /\ hist.callers[k].fault = ""}

\* C30: however the calls of Open on one Driver interleave, the handle of the
\* Driver is assigned at most once, it is read and written only by the caller
\* that holds the mutex, and every connection returned uses the handle of the
\* Driver
C30_OneHandle ==
    /\ hist.driver.writes <= 1
    /\ ~hist.driver.unguarded
    /\ \A k \in Connected :
          hist.callers[k].sdb # NilSDB /\ hist.callers[k].sdb = hist.driver.sdb

\* two callers found no handle and made a session each, and both have their
\* connection
C30_Witness ==
    /\ hist.driver.writes = 1
    /\ \E j, k \in Connected : j # k /\ hist.callers[j].sess /\ hist.callers[k].sess

=============================================================================
